---------------------------- MODULE Spec2Model ----------------------------
(***************************************************************************)
(* A state-machine model of the kalshi-predictor backend core:             *)
(*   - the Elo rating store (services/elo_manager.py),                     *)
(*   - the game result monitor threads (services/game_result_monitor.py),  *)
(*   - the weight calibrator and the engines that read its weights         *)
(*     (services/model_calibration.py, api/enhanced_endpoints.py),         *)
(*   - the ensemble prediction engine (services/enhanced_prediction.py).   *)
(*                                                                         *)
(* Numbers are fixed point.  Ratings are kept in tenths of an Elo point    *)
(* (the code stores round(x, 1)), probabilities in units of 1/PScale,      *)
(* blend weights in thousandths (the code stores round(x, 3)).             *)
(***************************************************************************)
EXTENDS Integers, Sequences, FiniteSets, TLC

VARIABLES
    \* ---- EloManager (elo_manager.py) ----
    ratings,            \* self.ratings["ratings"]: key -> rating (tenths)
    games_processed,    \* self.ratings["games_processed"]
    historical_games,   \* self.historical_games
    elo_file,           \* data/elo_ratings.json as last written
    games_file,         \* data/historical_games.json as last written
    op,                 \* the last operation executed (history variable)
    \* ---- ModelCalibration, the weights file and its readers ----
    current_weights,    \* ModelCalibration.current_weights (thousandths)
    weights_file,       \* data/model_weights.json as last written
    verified_count,     \* verified records in predictions_history.json
    engine_weights,     \* the STAT_* attributes of each engine instance
    req,                \* the POST /calibration/run requests
    worker,             \* thread-pool workers evaluating a prediction
    served,             \* the last prediction served by endpoints.py
    snapshots,          \* weight vectors the pool's engine has held whole
    \* ---- GameResultMonitor and the threads that run it ----
    thr,                \* the monitor thread and the manual check
    processed_games,    \* GameResultMonitor.processed_games
    unverified,         \* games with a prediction record not yet verified
    \* ---- EnhancedPredictionEngine ----
    engine_elo,         \* the engine's own EloManager: ratings, historical_games
    pred,               \* the last evaluation: what it computed, how it ended
    \* ---- the endpoints: market matching ----
    matcher,            \* a game, the fetched market list, the matches made
    \* ---- the endpoints: a slate of games evaluated as one batch ----
    batch,              \* the request, its tasks, what was gathered, the cache
    \* ---- AccuracyTracker ----
    predictions_history,    \* the list of prediction records
    history_file,           \* data/predictions_history.json
    outcome_call,           \* per caller: its record_outcome call
    \* ---- the endpoints: requests for a league's predictions ----
    dedup                   \* the cache, _pending_requests, futures, requests

eloVars == <<ratings, games_processed, historical_games, elo_file, games_file>>
eloAll == <<ratings, games_processed, historical_games, elo_file, games_file, op>>

calAll == <<current_weights, weights_file, verified_count, engine_weights,
            req, worker, served, snapshots>>

monAll == <<thr, processed_games, unverified>>
engAll == <<engine_elo, pred>>
apiAll == <<matcher, batch>>
trkAll == <<predictions_history, history_file, outcome_call>>

vars == <<ratings, games_processed, historical_games, elo_file, games_file, op,
          current_weights, weights_file, verified_count, engine_weights,
          req, worker, served, snapshots, thr, processed_games, unverified,
          engine_elo, pred, matcher, batch,
          predictions_history, history_file, outcome_call, dedup>>

-----------------------------------------------------------------------------
(* Bounds of the model *)

MaxGames == 2       \* results applied per run before the model stops
MaxHist == 2        \* length of a fetched league history
MaxVerified == 50   \* verified records the outcome store grows to

-----------------------------------------------------------------------------
(* Arithmetic helpers *)

Min(a, b) == IF a < b THEN a ELSE b
Max(a, b) == IF a > b THEN a ELSE b
Abs(a) == IF a < 0 THEN -a ELSE a

\* round(n / d) to the nearest integer, ties to the even neighbour of
\* base + n/d (Python's round()); d > 0; \div is floor division.
RoundHalfEven(base, n, d) ==
    LET fl == n \div d
        rem == n - fl * d
    IN  IF 2 * rem < d THEN base + fl
        ELSE IF 2 * rem > d THEN base + fl + 1
        ELSE IF (base + fl) % 2 = 0 THEN base + fl ELSE base + fl + 1

PScale == 10^5      \* probabilities are integers in 0..PScale

\* 1000 * 10^(i/16), i = 0..16: one decade of the exponential 10 ** x
Pow10Table == <<1000, 1155, 1334, 1540, 1778, 2054, 2371, 2738, 3162,
                3652, 4217, 4870, 5623, 6494, 7499, 8660, 10000>>

\* 1000 * 10 ** (t / 4000) for 0 <= t < 24000 (t in tenths of a rating
\* point, the exponent of _calculate_expected_score is t / 4000), linear
\* between table points.
Pow10Milli(t) ==
    LET q == t \div 4000
        r == t % 4000
        i == r \div 250
        lo == Pow10Table[i + 1]
        hi == Pow10Table[i + 2]
        frac == lo + ((hi - lo) * (r - 250 * i)) \div 250
    IN  frac * 10^q

-----------------------------------------------------------------------------
(* EloManager *)

Leagues == {"nba", "nfl"}
Teams == {"A", "B"}
Keys == Leagues \X Teams            \* the key f"{league}_{team_id}"

K_FACTOR == 32
DEFAULT_RATING == 15000             \* 1500 in tenths

HOME_ADVANTAGE(league) ==
    IF league = "nba" THEN 650 ELSE IF league = "nfl" THEN 550 ELSE 600

get_rating(table, team_id, league) ==
    IF <<league, team_id>> \in DOMAIN table
    THEN table[<<league, team_id>>] ELSE DEFAULT_RATING

\* Whether the float 1.0 / (1.0 + 10 ** ((rating_b - rating_a) / 400)) is
\* exactly 1.0: 10 ** x must vanish against 1.0 in double precision
\* (x <= -15.96), a gap of 6382 rating points (ratings in tenths).
ExpectedIsExactlyOne(rating_a, rating_b) == rating_a - rating_b >= 63820

\* 1.0 / (1.0 + 10 ** ((rating_b - rating_a) / 400)), in 1/PScale.
\* Beyond a gap of 2400 points the quotient is 0 or 1 at this resolution.
_calculate_expected_score(rating_a, rating_b) ==
    LET t == rating_b - rating_a
        up(x) == IF x >= 24000 THEN 0
                 ELSE RoundHalfEven(0, PScale * 1000, 1000 + Pow10Milli(x))
    IN  IF t >= 0 THEN up(t) ELSE PScale - up(-t)

\* min(1.0 + point_diff / 25.0, 2.0), as a numerator over 25
MovMultiplier25(home_score, away_score) ==
    Min(25 + Abs(home_score - away_score), 50)

\* NewRating with the sign of the update reversed
NewRatingReversed(rating, mov25, actual, expected) ==
    RoundHalfEven(rating, K_FACTOR * 10 * mov25 * (expected - actual),
                  25 * PScale)

\* round(rating + K_FACTOR * mov * (actual - expected), 1), in tenths
NewRating(rating, mov25, actual, expected) ==
    RoundHalfEven(rating, K_FACTOR * 10 * mov25 * (actual - expected),
                  25 * PScale)

Put(table, key, value) ==
    [k \in DOMAIN table \cup {key} |-> IF k = key THEN value ELSE table[k]]

\* Lines 120-143 of _update_ratings: the two rounded ratings it stores,
\* computed from the two ratings it has read
NewRatings(home_rating, away_rating, league, home_won, home_score, away_score) ==
    LET home_rating_adj == home_rating + HOME_ADVANTAGE(league)
        home_expected == _calculate_expected_score(home_rating_adj, away_rating)
        away_expected == PScale - home_expected
        home_actual == IF home_won THEN PScale ELSE 0
        away_actual == PScale - home_actual
        mov == MovMultiplier25(home_score, away_score)
    IN  <<NewRating(home_rating, mov, home_actual, home_expected),
          NewRating(away_rating, mov, away_actual, away_expected)>>

\* EloManager._update_ratings: the rating table after one result
_update_ratings(table, home_id, away_id, league, home_won, home_score, away_score) ==
    LET home_rating == get_rating(table, home_id, league)
        away_rating == get_rating(table, away_id, league)
        new == NewRatings(home_rating, away_rating, league, home_won,
                          home_score, away_score)
    IN  Put(Put(table, <<league, home_id>>, new[1]), <<league, away_id>>, new[2])


\* Stable sort of a fetched history by game_date, oldest first
\* (historical_games.sort(key=lambda x: x['game_date'])).
RECURSIVE InsertByDate(_, _)
InsertByDate(sorted, g) ==
    IF sorted = <<>> THEN <<g>>
    ELSE IF Head(sorted).game_date <= g.game_date
         THEN <<Head(sorted)>> \o InsertByDate(Tail(sorted), g)
         ELSE <<g>> \o sorted

RECURSIVE SortByDate(_)
SortByDate(games) ==
    IF games = <<>> THEN <<>>
    ELSE InsertByDate(SortByDate(SubSeq(games, 1, Len(games) - 1)),
                      games[Len(games)])

\* The loop of initialize_ratings: _update_ratings for each game in order;
\* the table after each game, the last being the table the loop leaves
RECURSIVE ReplayTables(_, _, _)
ReplayTables(table, games, league) ==
    IF games = <<>> THEN <<>>
    ELSE LET next == _update_ratings(table, Head(games).home_team_id,
                                     Head(games).away_team_id, league,
                                     Head(games).home_won,
                                     Head(games).home_score,
                                     Head(games).away_score)
         IN  <<next>> \o ReplayTables(next, Tail(games), league)

\* [k for k in self.ratings["ratings"].keys() if k.startswith(f"{league}_")]
LeagueTeams(table, league) == {k \in DOMAIN table : k[1] = league}

\* SeedSkipped with the force flag read the wrong way round
SeedSkippedFlagInverted(table, league, force_refresh) ==
    LeagueTeams(table, league) # {} /\ force_refresh

\* "if league_teams and not force_refresh: return"
SeedSkipped(table, league, force_refresh) ==
    LeagueTeams(table, league) # {} /\ ~force_refresh

\* game.get('status', '').lower() in ['final', 'status_final']
IsFinalStatus(status) == status \in {"Final", "final", "STATUS_FINAL"}

-----------------------------------------------------------------------------
(* Inputs of the rating store *)

Game(id, league, home, away, hs, as, date, status) ==
    [game_id |-> id, league |-> league, home_team_id |-> home,
     away_team_id |-> away, home_score |-> hs, away_score |-> as,
     home_won |-> hs > as, game_date |-> date, status |-> status]

NoGame == Game("none", "nba", "A", "B", 0, 0, 0, "none")

\* Results handed to update_with_game_result (a scoreboard entry)
ResultGames ==
    { Game("r", "nba", m[1], m[2], s[1], s[2], 9, "Final") :
        m \in {<<"A", "B">>, <<"B", "A">>},
        s \in {<<110, 100>>, <<90, 120>>, <<100, 100>>} }
    \cup { Game("r", "nfl", "A", "B", 24, 17, 9, "Final"),
           Game("r", "nba", "A", "B", 55, 50, 9, "In Progress") }

\* Completed games ESPN can return for a league (fetch_historical_games)
FeedGames(league) ==
    { Game("h1", league, "A", "B", 110, 100, 2, "Final"),
      Game("h2", league, "B", "A", 120, 90, 1, "Final"),
      Game("h3", league, "A", "B", 100, 104, 3, "Final") }

RECURSIVE HistoriesOfLen(_, _)
HistoriesOfLen(league, n) ==
    IF n = 0 THEN {<<>>}
    ELSE { Append(h, g) : h \in HistoriesOfLen(league, n - 1),
                          g \in FeedGames(league) }

NoRepeat(h) == \A i, j \in 1..Len(h) : i # j => h[i] # h[j]

Histories(league) ==
    { h \in UNION { HistoriesOfLen(league, n) : n \in 0..MaxHist } : NoRepeat(h) }

\* Rating tables elo_ratings.json can hold when the process starts: none,
\* or the table left by earlier seasons.  The second is the table the code
\* reaches from 1500 after A has beaten B at home 1524 times and C 1464
\* times by 30 points (2383.4 / 911.1).
SaturatedTable ==
    [k \in {<<"nba", "A">>, <<"nba", "B">>} |->
        IF k[2] = "A" THEN 23834 ELSE 9111]

EmptyTable == [k \in {} |-> 0]

EloFile(table, n) == [ratings |-> table, games_processed |-> n]

\* elo_ratings.json when the process starts (_load_ratings)
SaturatedCount == 1524 + 1464
PersistedFiles == {EloFile(EmptyTable, 0), EloFile(SaturatedTable, SaturatedCount)}

\* Results applied since the process started (the count the bounds limit)
AppliedThisRun ==
    IF games_processed >= SaturatedCount
    THEN games_processed - SaturatedCount ELSE games_processed

-----------------------------------------------------------------------------
(* Operations of the rating store *)

\* What is seen when one _update_ratings call of a handler has returned:
\* whether elo_ratings.json holds the table in memory, and the
\* games_processed count
Seen(memory, persisted, count) ==
    [written_through |-> persisted = memory, count |-> count]

\* What the last call was: its name and arguments, whether the league had
\* any rating when it was made, the count it started from, and what was seen
\* after each result it applied (after the last one: when the handler returns).
Op(name, league, force, game, applied) ==
    [name |-> name, league |-> league, force |-> force, game |-> game,
     rated |-> \E k \in DOMAIN ratings : k[1] = league,
     count_before |-> games_processed, applied |-> applied]

\* _save_ratings: json.dump of self.ratings; a write error is logged and
\* swallowed, the file then keeps what it held.
_save_ratings(table, n, write_ok) ==
    IF write_ok THEN EloFile(table, n) ELSE elo_file

InitElo ==
    /\ \E f \in PersistedFiles :
         /\ elo_file = f
         /\ ratings = f.ratings
         /\ games_processed = f.games_processed
    /\ historical_games = <<>>
    /\ games_file = <<>>
    /\ op = [name |-> "init", league |-> "nba", force |-> FALSE,
             game |-> NoGame, rated |-> FALSE, count_before |-> 0,
             applied |-> <<>>]

\* EloManager.update_with_game_result(game, league)
update_with_game_result(game, league, write_ok) ==
    /\ IF ~IsFinalStatus(game.status)
       THEN UNCHANGED eloVars
       ELSE /\ ratings' = _update_ratings(ratings, game.home_team_id,
                              game.away_team_id, league,
                              game.home_score > game.away_score,
                              game.home_score, game.away_score)
            /\ games_processed' = games_processed + 1
            /\ elo_file' = _save_ratings(ratings', games_processed', write_ok)
            /\ UNCHANGED <<historical_games, games_file>>
    /\ op' = Op("update_with_game_result", league, FALSE, game,
                IF ~IsFinalStatus(game.status) THEN <<>>
                ELSE <<Seen(ratings', elo_file'.ratings, games_processed')>>)

\* The loop of initialize_ratings as _update_ratings returns from game i:
\* nothing is written and nothing is counted inside the loop; the count and
\* the file change once, after the last game (saved, count_after).
SeenInReplay(tables, saved, count_after) ==
    [i \in 1..Len(tables) |->
        Seen(tables[i],
             IF i = Len(tables) THEN saved ELSE elo_file.ratings,
             IF i = Len(tables) THEN count_after ELSE games_processed)]

\* EloManager.initialize_ratings(league, force_refresh); fetched is what
\* fetch_historical_games(league) returns.
initialize_ratings(league, force_refresh, fetched, write_ok) ==
    IF SeedSkipped(ratings, league, force_refresh) \/ fetched = <<>>
    THEN /\ UNCHANGED eloVars
         /\ op' = Op("initialize_ratings", league, force_refresh, NoGame, <<>>)
    ELSE LET KeepOther(g) == g.league # league
             sorted == SortByDate(fetched)
         IN  \E tables \in {ReplayTables(ratings, sorted, league)} :
             /\ historical_games' =
                    SelectSeq(historical_games, KeepOther) \o fetched
             /\ games_file' = IF write_ok THEN historical_games'
                              ELSE games_file
             /\ ratings' = tables[Len(tables)]
             /\ games_processed' = games_processed + Len(sorted)
             /\ elo_file' = _save_ratings(ratings', games_processed', write_ok)
             /\ op' = Op("initialize_ratings", league, force_refresh, NoGame,
                         SeenInReplay(tables, elo_file'.ratings,
                                      games_processed'))

UpdateStep ==
    /\ AppliedThisRun < MaxGames
    /\ \E g \in ResultGames, write_ok \in BOOLEAN :
         update_with_game_result(g, g.league, write_ok)

SeedStep ==
    /\ AppliedThisRun < MaxGames
    /\ \E league \in Leagues, force \in BOOLEAN, write_ok \in BOOLEAN :
         \* fetch_historical_games is not called when the seeding is skipped
         \E fetched \in IF SeedSkipped(ratings, league, force) THEN {<<>>}
                         ELSE Histories(league) :
            initialize_ratings(league, force, fetched, write_ok)

NextElo == (UpdateStep \/ SeedStep) /\ UNCHANGED <<calAll, monAll, engAll, apiAll, trkAll, dedup>>

-----------------------------------------------------------------------------
(* ModelCalibration *)

WeightKeys == <<"STAT_ELO_WEIGHT", "STAT_FORM_WEIGHT", "STAT_RECORD_WEIGHT",
                "STAT_H2H_WEIGHT", "STAT_INJURY_WEIGHT">>

KeySet == {WeightKeys[i] : i \in 1..Len(WeightKeys)}

default_weights ==
    [STAT_ELO_WEIGHT |-> 400, STAT_FORM_WEIGHT |-> 200,
     STAT_RECORD_WEIGHT |-> 150, STAT_H2H_WEIGHT |-> 100,
     STAT_INJURY_WEIGHT |-> 150]

WeightSum(w) ==
    w.STAT_ELO_WEIGHT + w.STAT_FORM_WEIGHT + w.STAT_RECORD_WEIGHT
        + w.STAT_H2H_WEIGHT + w.STAT_INJURY_WEIGHT

\* What scipy's minimize() hands back: either no success, or a point x of
\* the feasible region, bounds (0.1, 0.7), (0.05, 0.5), (0.05, 0.4) and
\* 0.5 <= sum(x) <= 1.  Which point depends on the verified records; the
\* model takes the corners of the bounds and one interior point.
OptimizerResults ==
    {x \in ({100, 700} \X {50, 500} \X {50, 400}) \cup {<<400, 200, 150>>} :
        x[1] + x[2] + x[3] >= 500 /\ x[1] + x[2] + x[3] <= 1000}

OptimizerFailed == <<0, 0, 0>>

OptimizerOutcomes == OptimizerResults \cup {OptimizerFailed}

InsufficientDataOffByOne(n, min_predictions) == n + 1 < min_predictions

\* len(verified) < min_predictions
InsufficientData(n, min_predictions) == n < min_predictions

\* ModelCalibration.optimize_ensemble_weights(min_predictions); n is
\* len(verified), x the outcome of minimize().  ok = FALSE is None.
optimize_ensemble_weights(cur, n, min_predictions, x) ==
    IF InsufficientData(n, min_predictions) \/ x = OptimizerFailed
    THEN [ok |-> FALSE, weights |-> cur]
    ELSE LET total == x[1] + x[2] + x[3]
         IN  [ok |-> TRUE,
              weights |->
                [STAT_ELO_WEIGHT |-> RoundHalfEven(0, x[1] * 850, total),
                 STAT_FORM_WEIGHT |-> RoundHalfEven(0, x[2] * 850, total),
                 STAT_RECORD_WEIGHT |-> RoundHalfEven(0, x[3] * 850, total),
                 STAT_H2H_WEIGHT |-> cur.STAT_H2H_WEIGHT,
                 STAT_INJURY_WEIGHT |-> cur.STAT_INJURY_WEIGHT]]

\* np.clip(x, lo, hi)
Clip(x, lo, hi) == Max(lo, Min(hi, x))

\* weight_changes of calibrate_weights: the clipped change of every key
WeightChanges(cur, optimized, max_adjustment) ==
    [k \in KeySet |->
        Clip(optimized[k] - cur[k], -max_adjustment, max_adjustment)]

\* "Normalize to ensure sum = 1.0": round(w / total, 3) for every key
Normalize(w) ==
    [k \in KeySet |-> RoundHalfEven(0, w[k] * 1000, WeightSum(w))]

\* adjusted_weights of calibrate_weights: old value plus the clipped change,
\* then normalised
AdjustedWeights(cur, optimized, max_adjustment) ==
    Normalize([k \in KeySet |->
        cur[k] + WeightChanges(cur, optimized, max_adjustment)[k]])

NoWeightsFile == [exists |-> FALSE, current_weights |-> default_weights,
                  calibration_history |-> <<>>]

\* ModelCalibration._save_weights(weights, calibration_info): the file as
\* it is afterwards; a failing write is logged and leaves the file alone.
_save_weights(file, weights, calibration_info, write_ok) ==
    IF write_ok
    THEN [exists |-> TRUE, current_weights |-> weights,
          calibration_history |->
              Append(file.calibration_history, calibration_info)]
    ELSE file

\* ModelCalibration._load_weights()
_load_weights(file) ==
    IF file.exists THEN file.current_weights ELSE default_weights

-----------------------------------------------------------------------------
(* The calibration endpoint, the engines and the threads that run them *)

PoolEngine == "enhanced_endpoints.prediction_engine"
LoopEngine == "endpoints.enhanced_prediction_engine"
Engines == {PoolEngine, LoopEngine}

Requests == {"r1", "r2"}        \* POST /calibration/run requests
Workers == {"w1"}               \* threads of the ThreadPoolExecutor

DefaultMinPredictions == 50     \* Query(50, ge=10, le=500)
DefaultMaxAdjustment == 50      \* Query(0.05, ge=0.01, le=0.15)
MinPredictions == {10, DefaultMinPredictions}
MaxAdjustments == {10, DefaultMaxAdjustment}

NoResult == [success |-> FALSE, message |-> "",
             weights_before |-> default_weights,
             weights_after |-> default_weights,
             weight_changes |-> [k \in KeySet |-> 0],
             persisted |-> FALSE]

\* A request: where its handler stands, the handler's locals, and the
\* response once the handler has returned
PendingRequest ==
    [pc |-> "pending", min_predictions |-> 0, max_adjustment |-> 0,
     adjusted |-> default_weights, changes |-> [k \in KeySet |-> 0],
     loaded |-> 0, result |-> NoResult]

\* The handler returns: its locals are gone, the request's parameters and
\* the response stay
Returned(r, result) ==
    [PendingRequest EXCEPT !.pc = "done", !.result = result,
                           !.min_predictions = r.min_predictions,
                           !.max_adjustment = r.max_adjustment]

IdleWorker == [pc |-> "idle", read |-> 0, used |-> [k \in KeySet |-> 0]]

NothingServed == [made |-> FALSE, used |-> default_weights,
                  persisted |-> default_weights, calibrated |-> FALSE]

\* A weights file left by an earlier run of the service
EarlierFile ==
    [exists |-> TRUE,
     current_weights |-> AdjustedWeights(default_weights,
         optimize_ensemble_weights(default_weights, DefaultMinPredictions,
             DefaultMinPredictions, <<400, 200, 150>>).weights,
         DefaultMaxAdjustment),
     calibration_history |-> <<>>]

\* EnhancedPredictionEngine.__init__: the defaults, then
\* _load_optimized_weights()
EngineConstructed(file) ==
    IF file.exists THEN file.current_weights ELSE default_weights

InitCal ==
    /\ weights_file \in {NoWeightsFile, EarlierFile}
    /\ current_weights = _load_weights(weights_file)
    /\ engine_weights = [e \in Engines |-> EngineConstructed(weights_file)]
    /\ verified_count = DefaultMinPredictions - 1
    /\ req = [r \in Requests |-> PendingRequest]
    /\ worker = [w \in Workers |-> IdleWorker]
    /\ served = NothingServed
    /\ snapshots = {EngineConstructed(weights_file)}

InProgress(r) == req[r].pc \in {"optimize", "save", "reload"}

LoopFreeAlways == TRUE

\* The handlers of the event loop are coroutines; run_calibration has no
\* await, so once begun it runs to its return before the loop takes the
\* next handler.
LoopFree == \A r \in Requests : ~InProgress(r)

\* run_calibration is entered and calls calibrate_weights
run_calibration(r, min_predictions, max_adjustment) ==
    /\ LoopFree
    /\ req[r].pc = "pending"
    /\ req' = [req EXCEPT ![r] =
                 [@ EXCEPT !.pc = "optimize",
                           !.min_predictions = min_predictions,
                           !.max_adjustment = max_adjustment]]
    /\ UNCHANGED <<current_weights, weights_file, verified_count,
                   engine_weights, worker, served, snapshots>>

\* calibrate_weights up to the normalised adjusted_weights, or its early
\* return when optimize_ensemble_weights gives None
calibrate_optimize(r, x) ==
    /\ req[r].pc = "optimize"
    /\ LET opt == optimize_ensemble_weights(current_weights, verified_count,
                                            req[r].min_predictions, x)
       IN  IF ~opt.ok
           THEN req' = [req EXCEPT ![r] = Returned(req[r], [NoResult EXCEPT
                            !.message = "Not enough data for calibration"])]
           ELSE req' = [req EXCEPT ![r] =
                   [@ EXCEPT !.pc = "save",
                             !.adjusted = AdjustedWeights(current_weights,
                                 opt.weights, req[r].max_adjustment),
                             !.changes = WeightChanges(current_weights,
                                 opt.weights, req[r].max_adjustment)]]
    /\ UNCHANGED <<current_weights, weights_file, verified_count,
                   engine_weights, worker, served, snapshots>>

\* WeightsInForce keeping the old weights when the write failed
WeightsInForceIfSaved(adjusted, write_ok) ==
    IF write_ok THEN adjusted ELSE current_weights

\* self.current_weights = adjusted_weights, whatever _save_weights did
WeightsInForce(adjusted, write_ok) == adjusted

\* calibrate_weights from _save_weights to its return; the report reads
\* self.current_weights after it has been assigned
calibrate_save(r, write_ok) ==
    /\ req[r].pc = "save"
    /\ weights_file' = _save_weights(weights_file, req[r].adjusted,
                                     req[r].changes, write_ok)
    /\ current_weights' = WeightsInForce(req[r].adjusted, write_ok)
    /\ req' = [req EXCEPT ![r] =
                 [@ EXCEPT !.pc = "reload",
                           !.result = [success |-> TRUE,
                               message |-> "Calibration successful",
                               weights_before |-> current_weights',
                               weights_after |-> req[r].adjusted,
                               weight_changes |-> req[r].changes,
                               persisted |-> write_ok]]]
    /\ UNCHANGED <<verified_count, engine_weights, worker, served, snapshots>>

\* prediction_engine._load_optimized_weights(): one attribute assignment
\* of the pool's engine per step, in the order of the source
engine_reload(r) ==
    /\ req[r].pc = "reload"
    /\ IF ~weights_file.exists
       THEN /\ req' = [req EXCEPT ![r] = Returned(req[r], req[r].result)]
            /\ UNCHANGED <<engine_weights, snapshots>>
       ELSE LET k == WeightKeys[req[r].loaded + 1]
                last == req[r].loaded + 1 = Len(WeightKeys)
            IN  /\ engine_weights' = [engine_weights EXCEPT
                       ![PoolEngine][k] = weights_file.current_weights[k]]
                /\ req' = [req EXCEPT ![r] =
                       IF last THEN Returned(req[r], req[r].result)
                       ELSE [@ EXCEPT !.loaded = @ + 1]]
                /\ snapshots' = IF last
                                THEN snapshots \cup {engine_weights'[PoolEngine]}
                                ELSE snapshots
    /\ UNCHANGED <<current_weights, weights_file, verified_count,
                   worker, served>>

\* A thread of the pool enters generate_prediction on the pool's engine
\* (enhanced_endpoints._process_single_game)
worker_start(w) ==
    /\ worker[w].pc \in {"idle", "done"}
    /\ worker' = [worker EXCEPT ![w] = [IdleWorker EXCEPT !.pc = "blend"]]
    /\ UNCHANGED <<current_weights, weights_file, verified_count,
                   engine_weights, req, served, snapshots>>

\* The stat_model_prob expression loads the five attributes one after the
\* other, in the order it names them
worker_read(w) ==
    /\ worker[w].pc = "blend"
    /\ LET k == WeightKeys[worker[w].read + 1]
           last == worker[w].read + 1 = Len(WeightKeys)
       IN  worker' = [worker EXCEPT ![w] =
               [@ EXCEPT !.used[k] = engine_weights[PoolEngine][k],
                         !.read = @ + 1,
                         !.pc = IF last THEN "done" ELSE "blend"]]
    /\ UNCHANGED <<current_weights, weights_file, verified_count,
                   engine_weights, req, served, snapshots>>

\* endpoints._process_single_game: generate_prediction of the engine of
\* endpoints.py runs on the event loop, between two handlers
serve_prediction ==
    /\ LoopFree
    /\ served' = [made |-> TRUE,
                  used |-> engine_weights[LoopEngine],
                  persisted |-> weights_file.current_weights,
                  calibrated |-> \E r \in Requests :
                      req[r].pc = "done" /\ req[r].result.persisted]
    /\ served' # served
    /\ UNCHANGED <<current_weights, weights_file, verified_count,
                   engine_weights, req, worker, snapshots>>

\* AccuracyTracker.record_outcome: one more verified record
record_outcome ==
    /\ verified_count < MaxVerified
    /\ verified_count' = verified_count + 1
    /\ UNCHANGED <<current_weights, weights_file, engine_weights, req,
                   worker, served, snapshots>>

CalibrationBegins ==
    \E r \in Requests, mp \in MinPredictions, ma \in MaxAdjustments :
        run_calibration(r, mp, ma)

CalibrationOptimizes ==
    \E r \in Requests, x \in OptimizerOutcomes : calibrate_optimize(r, x)

CalibrationSaves ==
    \E r \in Requests, write_ok \in BOOLEAN : calibrate_save(r, write_ok)

EngineReloads == \E r \in Requests : engine_reload(r)

WorkerStarts == \E w \in Workers : worker_start(w)

WorkerReads == \E w \in Workers : worker_read(w)

\* The calibration endpoint with its default parameters
DefaultCalibrationBegins ==
    \E r \in Requests :
        run_calibration(r, DefaultMinPredictions, DefaultMaxAdjustment)

\* The event loop: calibration requests, predictions of endpoints.py, and
\* the outcome store growing underneath
NextCal ==
    /\ \/ CalibrationBegins
       \/ CalibrationOptimizes
       \/ CalibrationSaves
       \/ EngineReloads
       \/ serve_prediction
       \/ record_outcome
    /\ UNCHANGED <<eloAll, monAll, engAll, apiAll, trkAll, dedup>>

\* The event loop handling calibration requests while the threads of the
\* pool evaluate predictions on the engine the handler reloads
NextPool ==
    /\ \/ DefaultCalibrationBegins
       \/ CalibrationOptimizes
       \/ CalibrationSaves
       \/ EngineReloads
       \/ WorkerStarts
       \/ WorkerReads
       \/ record_outcome
    /\ UNCHANGED <<eloAll, monAll, engAll, apiAll, trkAll, dedup>>

-----------------------------------------------------------------------------
(* GameResultMonitor: the background thread and the manual check *)

\* _monitor_loop runs on its own thread; manual_check is called by the
\* handler of POST /results/auto-record on the thread of the event loop.
\* Both work on the one GameResultMonitor and its one EloManager.
Threads == {"monitor", "manual"}

\* What get_scoreboard() returns for a league
Scoreboard(league) ==
    IF league = "nba"
    THEN <<Game("m1", "nba", "A", "B", 110, 100, 5, "Final"),
           Game("m2", "nba", "B", "A", 120, 90, 6, "Final")>>
    ELSE <<Game("m3", "nfl", "A", "B", 17, 24, 5, "In Progress")>>

IdleThread ==
    [pc |-> "idle", league |-> "nba", todo |-> <<>>, game |-> NoGame,
     home_rating |-> 0, away_rating |-> 0, count |-> 0, applied |-> <<>>]

InitMon ==
    /\ thr = [t \in Threads |-> IdleThread]
    /\ processed_games = {}
    /\ unverified = {"m1"}

\* "for game in completed_games" inside "for league in ['nba', 'nfl']":
\* the next game of the list, else the next league, else the pass is over
Advance(rec) ==
    IF rec.todo # <<>>
    THEN [rec EXCEPT !.pc = "record", !.game = Head(rec.todo),
                     !.todo = Tail(rec.todo)]
    ELSE IF rec.league = "nba"
         THEN [rec EXCEPT !.pc = "check", !.league = "nfl", !.game = NoGame]
         ELSE [rec EXCEPT !.pc = "idle", !.league = "nba", !.game = NoGame]

\* A pass begins: an iteration of _monitor_loop, or a call of manual_check
begin_pass(t) ==
    /\ thr[t].pc = "idle"
    /\ thr' = [thr EXCEPT ![t] = [@ EXCEPT !.pc = "check", !.league = "nba"]]
    /\ UNCHANGED <<eloAll, verified_count, processed_games, unverified>>

\* GameResultMonitor.check_completed_games(league)
check_completed_games(t) ==
    /\ thr[t].pc = "check"
    /\ LET NewlyFinal(g) == /\ IsFinalStatus(g.status)
                            /\ g.game_id \notin processed_games
       IN  thr' = [thr EXCEPT ![t] = Advance([@ EXCEPT !.todo =
                       SelectSeq(Scoreboard(thr[t].league), NewlyFinal)])]
    /\ UNCHANGED <<eloAll, verified_count, processed_games, unverified>>

\* process_game_result, step 1: AccuracyTracker.record_outcome
record_game_outcome(t) ==
    /\ thr[t].pc = "record"
    /\ IF thr[t].game.game_id \in unverified
       THEN /\ unverified' = unverified \ {thr[t].game.game_id}
            /\ verified_count' = verified_count + 1
       ELSE UNCHANGED <<unverified, verified_count>>
    /\ thr' = [thr EXCEPT ![t] = [@ EXCEPT !.pc = "read_home"]]
    /\ UNCHANGED <<eloAll, processed_games>>

\* _update_ratings line 117: home_rating = self.get_rating(home_id, league)
read_home(t) ==
    /\ thr[t].pc = "read_home"
    /\ thr' = [thr EXCEPT ![t] = [@ EXCEPT !.pc = "read_away",
                  !.home_rating = get_rating(ratings,
                      thr[t].game.home_team_id, thr[t].league)]]
    /\ UNCHANGED <<eloAll, verified_count, processed_games, unverified>>

\* _update_ratings line 118: away_rating = self.get_rating(away_id, league)
read_away(t) ==
    /\ thr[t].pc = "read_away"
    /\ thr' = [thr EXCEPT ![t] = [@ EXCEPT !.pc = "write_home",
                  !.away_rating = get_rating(ratings,
                      thr[t].game.away_team_id, thr[t].league)]]
    /\ UNCHANGED <<eloAll, verified_count, processed_games, unverified>>

\* The two ratings thread t is about to store
Computed(t) ==
    NewRatings(thr[t].home_rating, thr[t].away_rating, thr[t].league,
               thr[t].game.home_score > thr[t].game.away_score,
               thr[t].game.home_score, thr[t].game.away_score)

\* _update_ratings line 142: the home rating is stored
write_home(t) ==
    /\ thr[t].pc = "write_home"
    /\ ratings' = Put(ratings, <<thr[t].league, thr[t].game.home_team_id>>,
                      Computed(t)[1])
    /\ thr' = [thr EXCEPT ![t] = [@ EXCEPT !.pc = "write_away"]]
    /\ UNCHANGED <<games_processed, historical_games, elo_file, games_file,
                   op, verified_count, processed_games, unverified>>

\* _update_ratings line 143: the away rating is stored; the result is applied
write_away(t) ==
    /\ thr[t].pc = "write_away"
    /\ ratings' = Put(ratings, <<thr[t].league, thr[t].game.away_team_id>>,
                      Computed(t)[2])
    /\ thr' = [thr EXCEPT ![t] = [@ EXCEPT !.pc = "count_load",
                  !.applied = Append(@, thr[t].game)]]
    /\ UNCHANGED <<games_processed, historical_games, elo_file, games_file,
                   op, verified_count, processed_games, unverified>>

\* update_with_game_result line 295, self.ratings["games_processed"] += 1:
\* the load of the old value
count_load(t) ==
    /\ thr[t].pc = "count_load"
    /\ thr' = [thr EXCEPT ![t] = [@ EXCEPT !.pc = "count_store",
                                           !.count = games_processed]]
    /\ UNCHANGED <<eloAll, verified_count, processed_games, unverified>>

\* ... and the store of the old value plus one
count_store(t) ==
    /\ thr[t].pc = "count_store"
    /\ games_processed' = thr[t].count + 1
    /\ thr' = [thr EXCEPT ![t] = [@ EXCEPT !.pc = "save", !.count = 0]]
    /\ UNCHANGED <<ratings, historical_games, elo_file, games_file, op,
                   verified_count, processed_games, unverified>>

\* update_with_game_result line 296: _save_ratings() writes what is in memory
save_ratings(t, write_ok) ==
    /\ thr[t].pc = "save"
    /\ elo_file' = _save_ratings(ratings, games_processed, write_ok)
    /\ thr' = [thr EXCEPT ![t] = [@ EXCEPT !.pc = "mark",
                                           !.home_rating = 0,
                                           !.away_rating = 0]]
    /\ UNCHANGED <<ratings, games_processed, historical_games, games_file,
                   op, verified_count, processed_games, unverified>>

\* process_game_result, step 3: _mark_game_processed(game_id)
mark_game_processed(t) ==
    /\ thr[t].pc = "mark"
    /\ processed_games' = processed_games \cup {thr[t].game.game_id}
    /\ thr' = [thr EXCEPT ![t] = Advance(@)]
    /\ UNCHANGED <<eloAll, verified_count, unverified>>

PassBegins == \E t \in Threads : begin_pass(t)
ChecksCompleted == \E t \in Threads : check_completed_games(t)
RecordsOutcome == \E t \in Threads : record_game_outcome(t)
ReadsHome == \E t \in Threads : read_home(t)
ReadsAway == \E t \in Threads : read_away(t)
WritesHome == \E t \in Threads : write_home(t)
WritesAway == \E t \in Threads : write_away(t)
CountLoads == \E t \in Threads : count_load(t)
CountStores == \E t \in Threads : count_store(t)
SavesRatings == \E t \in Threads, write_ok \in BOOLEAN : save_ratings(t, write_ok)
MarksProcessed == \E t \in Threads : mark_game_processed(t)

NextMon ==
    /\ \/ PassBegins
       \/ ChecksCompleted
       \/ RecordsOutcome
       \/ ReadsHome
       \/ ReadsAway
       \/ WritesHome
       \/ WritesAway
       \/ CountLoads
       \/ CountStores
       \/ SavesRatings
       \/ MarksProcessed
    /\ UNCHANGED <<current_weights, weights_file, engine_weights, req,
                   worker, served, snapshots, engine_elo, pred, apiAll, trkAll, dedup>>

-----------------------------------------------------------------------------
(* Results and calibrations on the event loop *)

\* POST /results/auto-record handled on the event loop: one finished game
\* reaches update_with_game_result
ResultRecorded ==
    /\ LoopFree
    /\ AppliedThisRun < MaxGames
    /\ \E league \in Leagues, write_ok \in BOOLEAN :
         \E i \in 1..Len(Scoreboard(league)) :
            update_with_game_result(Scoreboard(league)[i], league, write_ok)

\* The event loop taking results and calibration requests in turn, with
\* the endpoint's default parameters
NextPersist ==
    \/ ResultRecorded /\ UNCHANGED <<calAll, monAll, engAll, apiAll, trkAll, dedup>>
    \/ /\ \/ DefaultCalibrationBegins
          \/ CalibrationOptimizes
          \/ CalibrationSaves
          \/ EngineReloads
          \/ record_outcome
       /\ UNCHANGED <<eloAll, monAll, engAll, apiAll, trkAll, dedup>>

-----------------------------------------------------------------------------
(* EnhancedPredictionEngine: the components of a prediction *)

\* Probabilities are integers in units of 1/PScale; products are taken at
\* that resolution.  NaN is the float that compares false with everything.
NaN == 0 - 2^30
Half == PScale \div 2

\* math.isnan(x)
IsNaN(x) == x = NaN

\* "if math.isnan(x): x = d"
NanTo(x, d) == IF IsNaN(x) THEN d ELSE x

\* Python's min(a, b) and max(a, b): b only if the comparison with a is true
PyMin(a, b) == IF ~IsNaN(a) /\ ~IsNaN(b) /\ b < a THEN b ELSE a
PyMax(a, b) == IF ~IsNaN(a) /\ ~IsNaN(b) /\ b > a THEN b ELSE a

\* max(lo, min(hi, x))
PyClamp(lo, hi, x) == PyMax(lo, PyMin(hi, x))

\* a + b in floats
FAdd(a, b) == IF IsNaN(a) \/ IsNaN(b) THEN NaN ELSE a + b

\* abs(a - b) in floats
FAbsDiff(a, b) == IF IsNaN(a) \/ IsNaN(b) THEN NaN ELSE Abs(a - b)

\* 4000 * log10(m / 1000) for m >= 1000, the inverse of Pow10Milli
Log10Milli(m) ==
    LET q == IF m >= 10^6 THEN 3 ELSE IF m >= 10^5 THEN 2
             ELSE IF m >= 10^4 THEN 1 ELSE 0
        x == m \div 10^q
        i == CHOOSE j \in 1..16 :
                 Pow10Table[j] <= x /\ (x < Pow10Table[j + 1] \/ j = 16)
        lo == Pow10Table[i]
        hi == Pow10Table[i + 1]
    IN  4000 * q + 250 * (i - 1) + (250 * (x - lo)) \div (hi - lo)

\* calculate_elo_win_prob: 65 points of home advantage for the NBA, else 55
calculate_elo_win_prob(home_elo, away_elo, league) ==
    _calculate_expected_score(
        home_elo + (IF league = "nba" THEN 650 ELSE 550), away_elo)

FORM_WINDOW == 5

\* The games of a list in which team_id played and whose status is Final
TeamGames(team_id, games) ==
    LET Played(g) == /\ (g.home_team_id = team_id \/ g.away_team_id = team_id)
                     /\ g.status = "Final"
    IN  SelectSeq(games, Played)

\* seq[-n:]
LastN(seq, n) == SubSeq(seq, Max(1, Len(seq) - n + 1), Len(seq))

\* The point differential of a game seen from team_id
PointDiff(g, team_id) ==
    IF g.home_team_id = team_id THEN g.home_score - g.away_score
    ELSE g.away_score - g.home_score

RECURSIVE SumSeq(_)
SumSeq(seq) == IF seq = <<>> THEN 0 ELSE Head(seq) + SumSeq(Tail(seq))

\* np.mean of a list of integers, in thousandths
MeanMilli(seq) == RoundHalfEven(0, 1000 * SumSeq(seq), Len(seq))

\* calculate_recent_form: win_pct in 1/PScale, point differentials and
\* momentum in thousandths of a point
calculate_recent_form(team_id, games) ==
    LET team_games == LastN(TeamGames(team_id, games), FORM_WINDOW)
        n == Len(team_games)
        point_diffs == [i \in 1..n |-> PointDiff(team_games[i], team_id)]
        wins == Cardinality({i \in 1..n : point_diffs[i] > 0})
        win_pct == RoundHalfEven(0, wins * PScale, n)
        avg_point_diff == MeanMilli(point_diffs)
        momentum == IF n >= 5
                    THEN MeanMilli(SubSeq(point_diffs, n - 2, n))
                         - MeanMilli(SubSeq(point_diffs, n - 4, n - 3))
                    ELSE avg_point_diff
        strength == IF win_pct >= 70000 /\ avg_point_diff > 5000 THEN "STRONG"
                    ELSE IF win_pct >= Half /\ avg_point_diff > 0 THEN "GOOD"
                    ELSE IF win_pct < 30000 /\ avg_point_diff < -5000 THEN "WEAK"
                    ELSE "NEUTRAL"
    IN  IF n = 0
        THEN [win_pct |-> Half, momentum |-> 0, strength |-> "NEUTRAL"]
        ELSE [win_pct |-> win_pct, momentum |-> momentum, strength |-> strength]

\* 0.5 + form_diff * 0.35 + momentum_diff / 10 * 0.15 + strength_bonus + 0.05
FormRaw(home_form, away_form) ==
    LET form_diff == home_form.win_pct - away_form.win_pct
        momentum_diff == home_form.momentum - away_form.momentum
        strength_bonus ==
            IF home_form.strength = "STRONG" /\ away_form.strength # "STRONG"
            THEN 3000
            ELSE IF away_form.strength = "STRONG" /\ home_form.strength # "STRONG"
                 THEN -3000 ELSE 0
    IN  Half + (35 * form_diff) \div 100 + (3 * momentum_diff) \div 2
            + strength_bonus + 5000

\* FormProb without the clamp of line 681
FormProbUnclamped(home_form, away_form) == FormRaw(home_form, away_form)

\* form_prob = max(0.12, min(0.88, form_prob))
FormProb(home_form, away_form) ==
    PyClamp(12000, 88000, FormRaw(home_form, away_form))

\* (big / small) ** exponent in thousandths, big >= small > 0, the exponent
\* being 13.91 for the NBA and 2.37 otherwise; 10^9 stands for any larger value
PowRatioMilli(big, small, league) ==
    LET t == Log10Milli((1000 * big) \div small)
        e == IF league = "nba" THEN 1391 ELSE 237
        te == (t * e) \div 100
    IN  IF te >= 24000 THEN 10^9 ELSE Pow10Milli(te)

\* _calculate_pythagorean_win_pct(points_for, points_against, league)
_calculate_pythagorean_win_pct(points_for, points_against, league) ==
    IF points_for = 0 /\ points_against = 0 THEN Half
    ELSE IF points_against = 0 THEN PScale
    ELSE IF points_for = 0 THEN 0
    ELSE IF points_for >= points_against
         THEN PScale - (PScale * 1000) \div
                  (1000 + PowRatioMilli(points_for, points_against, league))
         ELSE (PScale * 1000) \div
                  (1000 + PowRatioMilli(points_against, points_for, league))

\* The games calculate_season_stats counts: 'Final' in status
SeasonGames(team_id, games) ==
    LET Played(g) == /\ (g.home_team_id = team_id \/ g.away_team_id = team_id)
                     /\ g.status \in {"Final", "Final/OT"}
    IN  SelectSeq(games, Played)

\* calculate_season_stats(team_id, league, all_games)
calculate_season_stats(team_id, league, games) ==
    LET team_games == SeasonGames(team_id, games)
        n == Len(team_games)
        For(g) == IF g.home_team_id = team_id THEN g.home_score ELSE g.away_score
        Against(g) == IF g.home_team_id = team_id THEN g.away_score ELSE g.home_score
        points_for == SumSeq([i \in 1..n |-> For(team_games[i])])
        points_against == SumSeq([i \in 1..n |-> Against(team_games[i])])
    IN  [games_played |-> n,
         pythagorean_win_pct |->
             _calculate_pythagorean_win_pct(points_for, points_against, league)]

\* _calculate_log5_prob(p_a, p_b), computed in units of 1/10000
_calculate_log5_prob(p_a, p_b) ==
    LET a == PyClamp(1000, 99000, p_a) \div 10
        b == PyClamp(1000, 99000, p_b) \div 10
        numerator == a * 10000 - a * b
        denominator == (a + b) * 10000 - 2 * a * b
    IN  IF denominator = 0 THEN Half
        ELSE 10 * RoundHalfEven(0, (numerator \div 1000) * 10000,
                                denominator \div 1000)

\* _parse_record: "W-L" gives (W, L); anything that does not split into two
\* integers gives (0, 0).  A record is held as its text and the integers
\* that text.split('-') yields (none when a piece is not an integer).
_parse_record(record) ==
    IF Len(record.parts) = 2 THEN record.parts ELSE <<0, 0>>

\* _calculate_record_win_prob(record)
_calculate_record_win_prob(record) ==
    LET wl == _parse_record(record)
        total == wl[1] + wl[2]
    IN  IF total = 0 THEN Half ELSE RoundHalfEven(0, wl[1] * PScale, total)

\* calculate_head_to_head(...)['home_win_pct']
calculate_head_to_head(home_id, away_id, games) ==
    LET Met(g) == /\ \/ (g.home_team_id = home_id /\ g.away_team_id = away_id)
                     \/ (g.home_team_id = away_id /\ g.away_team_id = home_id)
                  /\ g.status = "Final"
        h2h_games == SelectSeq(games, Met)
        n == Len(h2h_games)
        home_wins == Cardinality({i \in 1..n :
                         PointDiff(h2h_games[i], home_id) > 0})
    IN  IF n = 0 THEN Half ELSE RoundHalfEven(0, home_wins * PScale, n)

\* calculate_rest_days: the days since the team's last finished game before
\* current_date, 7 when there is none.  Dates are day numbers.
calculate_rest_days(team_id, current_date, games) ==
    LET team_games == SeasonGames(team_id, games)
        before == {team_games[i].game_date : i \in 1..Len(team_games)}
                      \cap 0..(current_date - 1)
    IN  IF before = {} THEN 7
        ELSE current_date - (CHOOSE d \in before : \A x \in before : x <= d)

\* The rest_impact of generate_prediction
RestImpact(league, home_rest, away_rest) ==
    IF league = "nba"
    THEN (IF home_rest = 1 THEN -3000 ELSE 0)
         + (IF away_rest = 1 THEN 3000 ELSE 0)
         + (IF home_rest >= 3 /\ away_rest = 1 THEN -1000 ELSE 0)
    ELSE IF league = "nfl"
    THEN (IF home_rest < 6 THEN -2000 ELSE 0)
         + (IF away_rest < 6 THEN 2000 ELSE 0)
         + (IF home_rest > 10 THEN 2000 ELSE 0)
         + (IF away_rest > 10 THEN -2000 ELSE 0)
    ELSE 0

\* A trip as calculate_travel_impact sees it: whether both abbreviations are
\* given and located, the distance, the longitude shift in tenths of an hour
NoTrip == [known |-> FALSE, distance_km |-> 0, tz_diff |-> 0]
Trips == {NoTrip,
          [known |-> TRUE, distance_km |-> 500, tz_diff |-> 0],
          [known |-> TRUE, distance_km |-> 3900, tz_diff |-> -30]}

\* calculate_travel_impact(...)['impact']
calculate_travel_impact(trip) ==
    IF ~trip.known THEN 0
    ELSE (IF trip.distance_km > 3000 THEN -2000
          ELSE IF trip.distance_km > 1500 THEN -1000 ELSE 0)
         + (IF Abs(trip.tz_diff) >= 25 THEN -1500 ELSE 0)

\* injury_prob = 0.5 + net_injury_impact * 0.04, clamped; impacts in tenths
InjuryProb(home_impact, away_impact) ==
    PyClamp(20000, 80000, Half + (away_impact - home_impact) * 400)

\* record_prob of generate_prediction (lines 693-715)
RecordProb(home_season, away_season, home_record, away_record) ==
    LET raw == IF home_season.games_played >= 5 /\ away_season.games_played >= 5
               THEN _calculate_log5_prob(home_season.pythagorean_win_pct,
                                         away_season.pythagorean_win_pct) + 4000
               ELSE Half + (35 * (_calculate_record_win_prob(home_record)
                                  - _calculate_record_win_prob(away_record)))
                               \div 100 + 5500
    IN  PyClamp(15000, 85000, NanTo(raw, Half))

\* stat_model_prob: the weighted ensemble of lines 780-794, the weights being
\* the engine's STAT_* attributes (thousandths)
StatModelProb(w, elo_prob, form_prob, record_prob, h2h_adjustment, injury_prob, context_prob) ==
    LET sum == elo_prob * w.STAT_ELO_WEIGHT
               + form_prob * w.STAT_FORM_WEIGHT
               + record_prob * w.STAT_RECORD_WEIGHT
               + (Half + h2h_adjustment) * w.STAT_H2H_WEIGHT
               + injury_prob * w.STAT_INJURY_WEIGHT
        raw == sum \div 1000 + (context_prob - Half) \div 10
    IN  PyClamp(10000, 90000, NanTo(raw, Half))

\* kalshi_markets as matched for a game; prices in cents
Market(prob, volume, yes_bid, yes_ask) ==
    [prob |-> prob, volume |-> volume, yes_bid |-> yes_bid, yes_ask |-> yes_ask]

NoMarket == [type |-> "None", home_market |-> Market(Half, 0, 0, 100),
             away_market |-> Market(Half, 0, 0, 100)]

KalshiMarkets ==
    {NoMarket,
     [type |-> "dual", home_market |-> Market(80000, 400, 78, 82),
      away_market |-> Market(20000, 400, 18, 22)],
     [type |-> "single_home", home_market |-> Market(30000, 200, 25, 35),
      away_market |-> Market(Half, 0, 0, 100)],
     [type |-> "single_away", home_market |-> Market(Half, 0, 0, 100),
      away_market |-> Market(60000, 50, 0, 100)]}

\* Matches at the thresholds of the tiers
TierMarkets ==
    {[type |-> "dual", home_market |-> Market(70000, 300, 68, 73),
      away_market |-> Market(30000, 201, 27, 33)],
     [type |-> "single_home", home_market |-> Market(65000, 500, 63, 68),
      away_market |-> Market(Half, 0, 0, 100)],
     [type |-> "single_home", home_market |-> Market(65000, 501, 63, 68),
      away_market |-> Market(Half, 0, 0, 100)],
     [type |-> "single_home", home_market |-> Market(55000, 101, 47, 63),
      away_market |-> Market(Half, 0, 0, 100)],
     [type |-> "single_away", home_market |-> Market(Half, 0, 0, 100),
      away_market |-> Market(40000, 101, 30, 45)],
     [type |-> "single_away", home_market |-> Market(Half, 0, 0, 100),
      away_market |-> Market(40000, 100, 30, 45)]}

\* Lines 797-847: the market's probability for the home side, the volume
\* and twice the spread
ParseMarket(kalshi_markets) ==
    LET home_m == kalshi_markets.home_market
        away_m == kalshi_markets.away_market
    IN  IF kalshi_markets.type = "dual"
        THEN [home_kalshi_prob |-> home_m.prob,
              volume |-> home_m.volume + away_m.volume,
              spread2 |-> (home_m.yes_ask - home_m.yes_bid)
                          + (away_m.yes_ask - away_m.yes_bid)]
        ELSE IF kalshi_markets.type = "single_home"
        THEN [home_kalshi_prob |-> home_m.prob, volume |-> home_m.volume,
              spread2 |-> 2 * (home_m.yes_ask - home_m.yes_bid)]
        ELSE IF kalshi_markets.type = "single_away"
        THEN [home_kalshi_prob |-> PScale - away_m.prob,
              volume |-> away_m.volume,
              spread2 |-> 2 * (away_m.yes_ask - away_m.yes_bid)]
        ELSE [home_kalshi_prob |-> Half, volume |-> 0, spread2 |-> 30]

\* kalshi_confidence with the volume thresholds met by the threshold itself
KalshiConfidenceInclusive(kalshi_markets) ==
    LET m == ParseMarket(kalshi_markets)
    IN  IF kalshi_markets.type = "None" THEN "LOW"
        ELSE IF m.volume >= 500 /\ m.spread2 <= 10 THEN "HIGH"
        ELSE IF m.volume >= 100 /\ m.spread2 <= 30 THEN "MEDIUM"
        ELSE "LOW"

\* kalshi_confidence
KalshiConfidence(kalshi_markets) ==
    LET m == ParseMarket(kalshi_markets)
    IN  IF kalshi_markets.type = "None" THEN "LOW"
        ELSE IF m.volume > 500 /\ m.spread2 <= 10 THEN "HIGH"
        ELSE IF m.volume > 100 /\ m.spread2 <= 30 THEN "MEDIUM"
        ELSE "LOW"

\* 1 / (1 + exp(-z)), z in units of 1/PScale: exp(-z) is 10 ** (-t / 4000)
\* with t = 4000 * log10(e) * z
Sigmoid(z) ==
    LET t == ((Abs(z) \div 10) * 1737) \div 10000
        up == IF t >= 24000 THEN 0
              ELSE RoundHalfEven(0, PScale * 1000, 1000 + Pow10Milli(t))
    IN  IF z >= 0 THEN PScale - up ELSE up

\* predict_with_statistical; elo_diff in tenths of a rating point
predict_with_statistical(elo_diff, form_diff, record_diff, h2h_adjustment, market_confidence) ==
    LET z == 80 * elo_diff + (6 * form_diff) \div 10
             + (4 * record_diff) \div 10 + 5000
        market_calibration == IF market_confidence = "HIGH" THEN 2000
                              ELSE IF market_confidence = "MEDIUM" THEN 0
                              ELSE -1000
    IN  PyClamp(5000, 95000,
                FAdd(FAdd(Sigmoid(z), h2h_adjustment), market_calibration))

\* The base weights of the final blend set by __init__, in hundredths
WEIGHT_STATS == 30
WEIGHT_KALSHI == 40
WEIGHT_ELO == 15
WEIGHT_FORM == 10

\* BlendWeights with the base weights of the first engine (prediction.py)
\* left in the MEDIUM tier
BlendWeightsOldBase(kalshi_confidence) ==
    IF kalshi_confidence = "HIGH"
    THEN [kalshi |-> 50, stats |-> 20, elo |-> 15, form |-> 10, ensemble |-> 5]
    ELSE IF kalshi_confidence = "LOW"
    THEN [kalshi |-> 15, stats |-> 35, elo |-> 25, form |-> 20, ensemble |-> 5]
    ELSE [kalshi |-> 45, stats |-> 35, elo |-> WEIGHT_ELO,
          form |-> WEIGHT_FORM, ensemble |-> 5]

\* The blend weights of lines 894-911, in hundredths
BlendWeights(kalshi_confidence) ==
    IF kalshi_confidence = "HIGH"
    THEN [kalshi |-> 50, stats |-> 20, elo |-> 15, form |-> 10, ensemble |-> 5]
    ELSE IF kalshi_confidence = "LOW"
    THEN [kalshi |-> 15, stats |-> 35, elo |-> 25, form |-> 20, ensemble |-> 5]
    ELSE [kalshi |-> WEIGHT_KALSHI, stats |-> WEIGHT_STATS, elo |-> WEIGHT_ELO,
          form |-> WEIGHT_FORM, ensemble |-> 5]

\* final_prob = max(0.05, min(0.95, base_prob + h2h_adjustment))
FinalProb(kalshi_confidence, stat_model_prob, home_kalshi_prob, elo_prob, form_prob, stat_ensemble_prob, h2h_adjustment) ==
    LET w == BlendWeights(kalshi_confidence)
        base_prob == (stat_model_prob * w.stats + home_kalshi_prob * w.kalshi
                      + elo_prob * w.elo + form_prob * w.form
                      + stat_ensemble_prob * w.ensemble) \div 100
    IN  PyClamp(5000, 95000, FAdd(base_prob, h2h_adjustment))

\* Binding the arguments of a call to the parameters of the function called:
\* TypeError when a keyword names no parameter, names one already bound by
\* position, or when there are more positional arguments than parameters
BindRaises(params, npos, keywords) ==
    \/ npos > Len(params)
    \/ \E k \in keywords :
          \/ k \notin {params[i] : i \in 1..Len(params)}
          \/ k \in {params[i] : i \in 1..Min(npos, Len(params))}

\* def get_market_context(self, home_team, away_team, game_date_str, league)
get_market_context == <<"home_team", "away_team", "game_date_str", "league">>

\* def generate_signals(self, game, market_data, context, kalshi_markets=None)
generate_signals == <<"game", "market_data", "context", "kalshi_markets">>

\* The two calls of lines 950-965 as generate_prediction writes them;
\* the first that raises ends the evaluation (there is no handler around them)
RaisedAt ==
    IF BindRaises(get_market_context, 4, {"include_intelligence"})
    THEN "get_market_context"
    ELSE IF BindRaises(generate_signals, 3, {"kalshi_markets", "model_prob"})
    THEN "generate_signals"
    ELSE "none"

\* Lines 926-942: the strength of the signal and the recommendation that
\* the divergence of the statistical model from the market suggests
SignalStrength(divergence) ==
    IF divergence > 15000 THEN "STRONG"
    ELSE IF divergence > 8000 THEN "MODERATE" ELSE "WEAK"

MarketRecommendation(divergence, stat_model_prob, home_kalshi_prob) ==
    IF divergence > 15000
    THEN IF home_kalshi_prob > stat_model_prob
         THEN "Follow Market" ELSE "Fade Market"
    ELSE IF divergence > 8000
    THEN IF home_kalshi_prob > stat_model_prob
         THEN "Lean Market" ELSE "Lean Model"
    ELSE "Neutral"

\* wager_display: "No Bet", or the two ends of "$lo-$hi"
NoBet == <<>>

\* The locals of lines 967-1027 before line 969 has run
Unbound ==
    [bound |-> FALSE, edge |-> 0, kelly_f |-> 0, wager_amount |-> 0,
     wager_display |-> NoBet, recommendation |-> ""]

\* Lines 967-1027: quarter Kelly on the side the model likes, a stake scaled
\* from $50 and bucketed by the strength of the signal; the recommendation of
\* lines 926-942 is replaced on either branch. kelly_f is in 1/10000.
SuggestedWager(stat_model_prob, home_kalshi_prob, signal_strength) ==
    LET home_side == stat_model_prob > home_kalshi_prob
        edge == IF home_side THEN stat_model_prob - home_kalshi_prob
                ELSE home_kalshi_prob - stat_model_prob
        target_team == IF home_side THEN "home_team_name" ELSE "away_team_name"
        full_kelly ==
            IF home_side
            THEN IF home_kalshi_prob < PScale
                 THEN (edge * 10000) \div (PScale - home_kalshi_prob) ELSE 0
            ELSE IF home_kalshi_prob > 0
                 THEN (edge * 10000) \div home_kalshi_prob ELSE 0
        kelly_f == PyMax(0, full_kelly \div 4)
        scaled == (50 * (10000 + kelly_f * 5)) \div 10000
        strong == PyMax(25, PyMin(100, scaled))
        moderate == PyMax(15, PyMin(50, scaled))
    IN  IF edge > 5000
        THEN IF signal_strength = "STRONG"
             THEN [bound |-> TRUE, edge |-> edge, kelly_f |-> kelly_f,
                   wager_amount |-> strong,
                   wager_display |-> <<strong, strong + 25>>,
                   recommendation |-> <<"Bet", target_team>>]
             ELSE IF signal_strength = "MODERATE"
             THEN [bound |-> TRUE, edge |-> edge, kelly_f |-> kelly_f,
                   wager_amount |-> moderate,
                   wager_display |-> <<moderate, moderate + 15>>,
                   recommendation |-> <<"Lean", target_team>>]
             ELSE [bound |-> TRUE, edge |-> edge, kelly_f |-> kelly_f,
                   wager_amount |-> 10, wager_display |-> <<10, 20>>,
                   recommendation |-> <<"Lean", target_team>>]
        ELSE [bound |-> TRUE, edge |-> edge, kelly_f |-> kelly_f,
              wager_amount |-> 0, wager_display |-> NoBet,
              recommendation |-> <<"Stay Away">>]

-----------------------------------------------------------------------------
(* EnhancedPredictionEngine.generate_prediction *)

\* A season between A and B in which A wins by growing margins
SeasonFeed(league) ==
    << Game("s1", league, "A", "B", 106, 100, 1, "Final"),
       Game("s2", league, "B", "A", 100, 108, 2, "Final"),
       Game("s3", league, "A", "B", 110, 100, 3, "Final"),
       Game("s4", league, "B", "A", 100, 120, 4, "Final"),
       Game("s5", league, "A", "B", 130, 100, 5, "Final"),
       Game("s6", league, "B", "A", 100, 104, 6, "Final/OT") >>

\* all_games as the endpoints pass it
AllGames(league) ==
    {<<>>, SeasonFeed(league)}
        \cup {h \in Histories(league) : Len(h) = MaxHist /\ h = SortByDate(h)}

\* A record string: its text and the integers its pieces parse to
Record(text, parts) == [text |-> text, parts |-> parts]

\* (home_record, away_record) of the game; absent reads as '0-0'
RecordPairs ==
    { <<Record("0-0", <<0, 0>>), Record("0-0", <<0, 0>>)>>,
      <<Record("41-0", <<41, 0>>), Record("5-10", <<5, 10>>)>>,
      <<Record("10-5-2", <<10, 5, 2>>), Record("abc", <<>>)>> }

\* (home_team_id, away_team_id) of the game; absent reads as ''
TeamIds == {<<"A", "B">>, <<"B", "A">>, <<"", "">>}

\* total_impact of calculate_injury_impact for (home, away), in tenths
InjuryImpacts == {<<0, 0>>, <<0, 100>>, <<65, 0>>}

\* game_date of the game (a day number) or none, and datetime.now()
NoDate == 0 - 1
GameDates == {NoDate, 7}
Clock == {20}

NotCalled ==
    [called |-> FALSE, raised_at |-> "none", returned |-> FALSE,
     engine |-> "none", form_raw |-> Half, elo_prob |-> Half,
     form_prob |-> Half, record_prob |-> Half, injury_prob |-> Half,
     context_prob |-> Half, stat_model_prob |-> Half,
     stat_ensemble_prob |-> Half, final_prob |-> Half,
     home_kalshi_prob |-> Half, kalshi_confidence |-> "LOW",
     model_weights |-> BlendWeights("LOW"), divergence |-> 0,
     signal_strength |-> "WEAK", recommendation |-> <<"Neutral">>,
     wager |-> Unbound, kalshi_markets |-> NoMarket,
     ids |-> <<"", "">>, league |-> "nba",
     home_elo |-> DEFAULT_RATING, away_elo |-> DEFAULT_RATING]

\* EnhancedPredictionEngine.__init__ line 78: self.elo_manager = EloManager()
InitEng ==
    /\ engine_elo = [ratings |-> elo_file.ratings,
                     historical_games |-> games_file]
    /\ pred = NotCalled

\* generate_prediction(game, home_stats, away_stats, kalshi_markets, all_games)
\* on engine e, up to the return or the first exception; pred keeps the
\* first evaluation of a behaviour
generate_prediction(e, ids, league, records, game_date, now, trip, injuries, kalshi_markets, all_games) ==
    LET home_id == ids[1]
        away_id == ids[2]
        InLeague(g) == g.league = league
        full_games_list == SelectSeq(engine_elo.historical_games, InLeague)
                               \o all_games
        home_elo == get_rating(engine_elo.ratings, home_id, league)
        away_elo == get_rating(engine_elo.ratings, away_id, league)
        elo_prob == NanTo(calculate_elo_win_prob(home_elo, away_elo, league), Half)
        home_form == calculate_recent_form(home_id, full_games_list)
        away_form == calculate_recent_form(away_id, full_games_list)
        form_prob == NanTo(FormProb(home_form, away_form), Half)
        home_season == calculate_season_stats(home_id, league, full_games_list)
        away_season == calculate_season_stats(away_id, league, full_games_list)
        record_prob == RecordProb(home_season, away_season, records[1], records[2])
        h2h_adjustment ==
            (calculate_head_to_head(home_id, away_id, full_games_list) - Half)
                \div 10
        injury_prob == InjuryProb(injuries[1], injuries[2])
        game_dt == IF game_date = NoDate THEN now ELSE game_date
        home_rest == calculate_rest_days(home_id, game_dt, full_games_list)
        away_rest == calculate_rest_days(away_id, game_dt, full_games_list)
        context_prob == Half + RestImpact(league, home_rest, away_rest)
                             - calculate_travel_impact(trip)
        stat_model_prob ==
            StatModelProb(engine_weights[e], elo_prob, form_prob, record_prob,
                          h2h_adjustment, injury_prob, context_prob)
        home_kalshi_prob == ParseMarket(kalshi_markets).home_kalshi_prob
        kalshi_confidence == KalshiConfidence(kalshi_markets)
        record_diff ==
            IF home_season.games_played >= 5
            THEN home_season.pythagorean_win_pct - away_season.pythagorean_win_pct
            ELSE _calculate_record_win_prob(records[1])
                     - _calculate_record_win_prob(records[2])
        stat_ensemble_prob ==
            NanTo(predict_with_statistical(home_elo - away_elo,
                      home_form.win_pct - away_form.win_pct, record_diff,
                      h2h_adjustment, kalshi_confidence), Half)
        final_prob == FinalProb(kalshi_confidence, stat_model_prob,
                          home_kalshi_prob, elo_prob, form_prob,
                          stat_ensemble_prob, h2h_adjustment)
        divergence == FAbsDiff(stat_model_prob, home_kalshi_prob)
        signal_strength == SignalStrength(divergence)
        wager == IF RaisedAt = "none"
                 THEN SuggestedWager(stat_model_prob, home_kalshi_prob,
                                     signal_strength)
                 ELSE Unbound
    IN  /\ pred' = [called |-> TRUE, raised_at |-> RaisedAt,
                    returned |-> RaisedAt = "none", engine |-> e,
                    form_raw |-> FormRaw(home_form, away_form),
                    elo_prob |-> elo_prob, form_prob |-> form_prob,
                    record_prob |-> record_prob, injury_prob |-> injury_prob,
                    context_prob |-> context_prob,
                    stat_model_prob |-> stat_model_prob,
                    stat_ensemble_prob |-> stat_ensemble_prob,
                    final_prob |-> final_prob,
                    home_kalshi_prob |-> home_kalshi_prob,
                    kalshi_confidence |-> kalshi_confidence,
                    model_weights |-> BlendWeights(kalshi_confidence),
                    divergence |-> divergence,
                    signal_strength |-> signal_strength,
                    recommendation |->
                        IF wager.bound THEN wager.recommendation
                        ELSE <<MarketRecommendation(divergence,
                                   stat_model_prob, home_kalshi_prob)>>,
                    wager |-> wager, kalshi_markets |-> kalshi_markets,
                    ids |-> ids, league |-> league,
                    home_elo |-> home_elo, away_elo |-> away_elo]
        /\ UNCHANGED engine_elo

Evaluates ==
    /\ ~pred.called
    /\ \E e \in Engines, ids \in TeamIds, league \in Leagues,
          records \in RecordPairs, game_date \in GameDates, now \in Clock,
          trip \in Trips, injuries \in InjuryImpacts,
          kalshi_markets \in KalshiMarkets :
           \E all_games \in AllGames(league) :
               generate_prediction(e, ids, league, records, game_date, now,
                                   trip, injuries, kalshi_markets, all_games)

\* A prediction asked for while the monitor records results
EvaluatesLive ==
    /\ ~pred.called
    /\ \E e \in Engines, ids \in TeamIds, league \in Leagues,
          kalshi_markets \in KalshiMarkets \cup TierMarkets :
           generate_prediction(e, ids, league,
               <<Record("0-0", <<0, 0>>), Record("0-0", <<0, 0>>)>>,
               NoDate, 20, NoTrip, <<0, 0>>, kalshi_markets, <<>>)

\* The monitor's EloManager takes results, the engines evaluate games
NextLive ==
    \/ ResultRecorded /\ UNCHANGED <<calAll, monAll, engAll, apiAll, trkAll, dedup>>
    \/ EvaluatesLive /\ UNCHANGED <<eloAll, calAll, monAll, apiAll, trkAll, dedup>>

NextEngine == Evaluates /\ UNCHANGED <<eloAll, calAll, monAll, apiAll, trkAll, dedup>>

-----------------------------------------------------------------------------
(* Text, as match_game_to_markets handles it *)

\* A text is the sequence of its characters.
UpperChars ==
    <<"A", "B", "C", "D", "E", "F", "G", "H", "I", "J", "K", "L", "M",
      "N", "O", "P", "Q", "R", "S", "T", "U", "V", "W", "X", "Y", "Z">>
LowerChars ==
    <<"a", "b", "c", "d", "e", "f", "g", "h", "i", "j", "k", "l", "m",
      "n", "o", "p", "q", "r", "s", "t", "u", "v", "w", "x", "y", "z">>
Digits == {"0", "1", "2", "3", "4", "5", "6", "7", "8", "9"}

\* str.lower()
LowerChar(c) ==
    IF \E i \in 1..26 : UpperChars[i] = c
    THEN LowerChars[CHOOSE i \in 1..26 : UpperChars[i] = c] ELSE c
Lower(t) == [i \in 1..Len(t) |-> LowerChar(t[i])]

\* re.sub(r'[^a-z0-9 ]', ' ', t)
Cleaned(t) ==
    [i \in 1..Len(t) |->
        IF t[i] \in {LowerChars[j] : j \in 1..26} \cup Digits \cup {" "}
        THEN t[i] ELSE " "]

\* str.split(): the maximal runs without a space, in order
RECURSIVE SplitFrom(_, _, _)
SplitFrom(t, i, word) ==
    IF i > Len(t) THEN (IF word = <<>> THEN <<>> ELSE <<word>>)
    ELSE IF t[i] = " "
         THEN (IF word = <<>> THEN <<>> ELSE <<word>>) \o SplitFrom(t, i + 1, <<>>)
         ELSE SplitFrom(t, i + 1, Append(word, t[i]))
Split(t) == SplitFrom(t, 1, <<>>)

\* "".join(tokens)
RECURSIVE Join(_)
Join(tokens) == IF tokens = <<>> THEN <<>> ELSE Head(tokens) \o Join(Tail(tokens))

\* k in t, for strings
Contains(t, k) ==
    \E i \in 0..(Len(t) - Len(k)) : SubSeq(t, i + 1, i + Len(k)) = k

\* any(k in t for k in keys)
AnyIn(keys, t) == \E k \in keys : Contains(t, k)

BostonCeltics ==
    <<"B", "o", "s", "t", "o", "n", " ", "C", "e", "l", "t", "i", "c", "s">>
LosAngelesLakers ==
    <<"L", "o", "s", " ", "A", "n", "g", "e", "l", "e", "s", " ", "L", "a",
    "k", "e", "r", "s">>
BOS ==
    <<"B", "O", "S">>
LAL ==
    <<"L", "A", "L">>
CelticsVsLakers ==
    <<"C", "e", "l", "t", "i", "c", "s", " ", "v", "s", " ", "L", "a", "k",
    "e", "r", "s">>
BosVsLal ==
    <<"B", "O", "S", " ", "v", "s", " ", "L", "A", "L">>
KnicksVsHeat ==
    <<"K", "n", "i", "c", "k", "s", " ", "v", "s", " ", "H", "e", "a", "t">>
LakersWin ==
    <<"L", "a", "k", "e", "r", "s", " ", "w", "i", "n", "?">>
CelticsWin ==
    <<"C", "e", "l", "t", "i", "c", "s", " ", "w", "i", "n", "?">>
Winner ==
    <<"W", "i", "n", "n", "e", "r">>
TickerHome ==
    <<"K", "X", "-", "B", "O", "S", "L", "A", "L", "-", "B", "O", "S">>
TickerAway ==
    <<"K", "X", "-", "B", "O", "S", "L", "A", "L", "-", "L", "A", "L">>
TickerGame ==
    <<"K", "X", "-", "1">>
TickerOther ==
    <<"K", "X", "-", "2">>

-----------------------------------------------------------------------------
(* match_game_to_markets *)

\* _build_team_keys(name, abbr)
_build_team_keys(name, abbr) ==
    LET all == Split(Cleaned(Lower(name)))
        Long(t) == Len(t) > 2
        tokens == SelectSeq(all, Long)
        from_name == IF name = <<>> THEN {}
                     ELSE {tokens[i] : i \in 1..Len(tokens)}
                          \cup (IF tokens = <<>> THEN {}
                                ELSE {tokens[Len(tokens)], Join(tokens)})
        from_abbr == IF abbr = <<>> THEN {} ELSE {Lower(abbr)}
    IN  {k \in from_name \cup from_abbr : k # <<>>}

\* _market_text(market): f"{title} {ticker}".lower()
_market_text(market) == Lower(market.title \o <<" ">> \o market.ticker)

\* A market as the Kalshi API returns it; prices in cents, 0 when missing
RawMarket(title, subtitle, ticker, last_price, yes_bid, yes_ask) ==
    [title |-> title, subtitle |-> subtitle, ticker |-> ticker,
     last_price |-> last_price, yes_bid |-> yes_bid, yes_ask |-> yes_ask,
     volume_24h |-> 200]

\* normalize_market taking the middle of bid and ask before the last price
normalize_market_mid_first(market) ==
    [market_id |-> market.ticker,
     title |-> market.title,
     subtitle |-> market.subtitle,
     subject |-> IF market.subtitle # <<>> THEN market.subtitle
                 ELSE market.title,
     prob |-> IF market.yes_bid # 0 /\ market.yes_ask # 0
              THEN (market.yes_bid + market.yes_ask) * 500
              ELSE IF market.last_price # 0 THEN market.last_price * 1000
                   ELSE Half,
     yes_bid |-> market.yes_bid,
     yes_ask |-> market.yes_ask,
     volume |-> market.volume_24h,
     raw |-> market]

\* KalshiClient.normalize_market(market): a new dict; the market it was
\* given is kept under 'raw'
normalize_market(market) ==
    [market_id |-> market.ticker,
     title |-> market.title,
     subtitle |-> market.subtitle,
     subject |-> IF market.subtitle # <<>> THEN market.subtitle
                 ELSE market.title,
     prob |-> IF market.last_price # 0 THEN market.last_price * 1000
              ELSE IF market.yes_bid # 0 /\ market.yes_ask # 0
                   THEN (market.yes_bid + market.yes_ask) * 500
                   ELSE Half,
     yes_bid |-> market.yes_bid,
     yes_ask |-> market.yes_ask,
     volume |-> market.volume_24h,
     raw |-> market]

\* Python's None
NoneValue == [type |-> "None"]

\* "is_home and not is_away" with the second test left out
OnlyFirstUnchecked(first, second) == first

\* "is_home and not is_away", "is_away and not is_home"
OnlyFirst(first, second) == first /\ ~second

\* The fallback taken for any market that scored at all
ScoreSufficesAtOne(best_single_score) == best_single_score >= 1

\* best_single_score >= 1.5
ScoreSuffices(best_single_score) == 2 * best_single_score >= 3

\* The locals of match_game_to_markets before its loop
LoopStart ==
    [home_market_match |-> NoneValue, away_market_match |-> NoneValue,
     best_single_market |-> NoneValue, best_single_score |-> 0]

\* One pass of "for market in markets" over the locals
LoopBody(loc, market, home_keys, away_keys) ==
    LET norm == normalize_market(market)
        subject == Lower(norm.subject)
        is_home == AnyIn(home_keys, subject)
        is_away == AnyIn(away_keys, subject)
        text == _market_text(market)
        score == (IF AnyIn(home_keys, text) THEN 1 ELSE 0)
                 + (IF AnyIn(away_keys, text) THEN 1 ELSE 0)
        better == score > loc.best_single_score
    IN  [home_market_match |->
             IF OnlyFirst(is_home, is_away) THEN norm
             ELSE loc.home_market_match,
         away_market_match |->
             IF ~OnlyFirst(is_home, is_away) /\ OnlyFirst(is_away, is_home)
             THEN norm ELSE loc.away_market_match,
         best_single_market |->
             IF better THEN norm ELSE loc.best_single_market,
         best_single_score |->
             IF better THEN score ELSE loc.best_single_score]

RECURSIVE Loop(_, _, _, _)
Loop(loc, markets, home_keys, away_keys) ==
    IF markets = <<>> THEN loc
    ELSE Loop(LoopBody(loc, Head(markets), home_keys, away_keys),
              Tail(markets), home_keys, away_keys)

\* The locals of match_game_to_markets when its loop has ended
LocalsAfterLoop(game, markets) ==
    Loop(LoopStart, markets,
         _build_team_keys(game.home_team_name, game.home_team_abbrev),
         _build_team_keys(game.away_team_name, game.away_team_abbrev))

\* match_game_to_markets(game, markets)
match_game_to_markets(game, markets) ==
    LET home_keys == _build_team_keys(game.home_team_name, game.home_team_abbrev)
        away_keys == _build_team_keys(game.away_team_name, game.away_team_abbrev)
        loc == Loop(LoopStart, markets, home_keys, away_keys)
        m == loc.best_single_market
        subject == Lower(m.subject)
        is_home_subject == AnyIn(home_keys, subject)
        is_away_subject == AnyIn(away_keys, subject)
    IN  IF markets = <<>> THEN NoneValue
        ELSE IF /\ loc.home_market_match # NoneValue
                /\ loc.away_market_match # NoneValue
                /\ loc.home_market_match.market_id
                       # loc.away_market_match.market_id
        THEN [type |-> "dual", home_market |-> loc.home_market_match,
              away_market |-> loc.away_market_match]
        ELSE IF ScoreSuffices(loc.best_single_score) /\ m # NoneValue
        THEN IF OnlyFirst(is_home_subject, is_away_subject)
             THEN [type |-> "single_home", home_market |-> m]
             ELSE IF OnlyFirst(is_away_subject, is_home_subject)
             THEN [type |-> "single_away", away_market |-> m]
             ELSE [type |-> "single_home", home_market |-> m]
        ELSE NoneValue

-----------------------------------------------------------------------------
(* The endpoints matching a game to the fetched markets *)

MaxMarkets == 2
MaxCalls == 2

Team(name, abbr) == [name |-> name, abbr |-> abbr]

MatchGame(home, away) ==
    [home_team_name |-> home.name, home_team_abbrev |-> home.abbr,
     away_team_name |-> away.name, away_team_abbrev |-> away.abbr]

\* The games offered to the matcher: Boston at home, Boston away, and a game
\* without names or abbreviations
MatchGames ==
    {MatchGame(Team(BostonCeltics, BOS), Team(LosAngelesLakers, LAL)),
     MatchGame(Team(LosAngelesLakers, LAL), Team(BostonCeltics, BOS)),
     MatchGame(Team(<<>>, <<>>), Team(<<>>, <<>>))}

\* The markets get_league_markets may return
MarketPool ==
    {RawMarket(CelticsVsLakers, BostonCeltics, TickerHome, 61, 60, 64),
     RawMarket(CelticsVsLakers, LosAngelesLakers, TickerAway, 0, 36, 40),
     RawMarket(BosVsLal, <<>>, TickerGame, 55, 0, 100),
     RawMarket(CelticsVsLakers, Winner, TickerGame, 0, 0, 100),
     RawMarket(KnicksVsHeat, <<>>, TickerOther, 50, 48, 52),
     RawMarket(CelticsWin, <<>>, <<>>, 0, 0, 100),
     RawMarket(LakersWin, <<>>, <<>>, 0, 0, 100)}

RECURSIVE ListsOfLen(_, _)
ListsOfLen(pool, n) ==
    IF n = 0 THEN {<<>>}
    ELSE {Append(l, x) : l \in ListsOfLen(pool, n - 1), x \in pool}

MarketLists == UNION {ListsOfLen(MarketPool, n) : n \in 0..MaxMarkets}

InitApi ==
    matcher = [game |-> MatchGame(Team(<<>>, <<>>), Team(<<>>, <<>>)),
               markets |-> <<>>, results |-> <<>>, tracked |-> LoopStart]

\* normalize_market with the subject written back into the market
MarketAnnotated(market) ==
    [market EXCEPT !.subtitle = normalize_market(market).subject]

\* The market dict after normalize_market(market) has read it: every access
\* is a .get, no key is assigned
MarketAfterNormalize(market) == market

\* A request arrives: the scoreboard game and the market list are fetched;
\* matcher follows one request
fetch_inputs(game, markets) ==
    /\ matcher.markets = <<>>
    /\ matcher.results = <<>>
    /\ matcher' = [game |-> game, markets |-> markets, results |-> <<>>,
                   tracked |-> LoopStart]

\* match_game_to_markets(game, markets) is called on what was fetched
call_match ==
    /\ Len(matcher.results) < MaxCalls
    /\ matcher' =
         [game |-> matcher.game,
          markets |-> [i \in 1..Len(matcher.markets) |->
                          MarketAfterNormalize(matcher.markets[i])],
          results |-> Append(matcher.results,
                          match_game_to_markets(matcher.game, matcher.markets)),
          tracked |-> LocalsAfterLoop(matcher.game, matcher.markets)]

FetchesInputs ==
    \E game \in MatchGames, markets \in MarketLists : fetch_inputs(game, markets)

NextMatch ==
    /\ FetchesInputs \/ call_match
    /\ UNCHANGED <<eloAll, calAll, monAll, engAll, batch, trkAll, dedup>>

-----------------------------------------------------------------------------
(* The endpoints evaluating a slate of games as one batch *)

MaxSlate == 2
MaxBatches == 2

\* The two routers and the engine each evaluates a game with
LoopRoute == "endpoints"
PoolRoute == "enhanced_endpoints"
Routes == {LoopRoute, PoolRoute}
LegacyEngine == "endpoints.prediction_engine"

EngineOf(route, use_enhanced) ==
    IF route = PoolRoute THEN PoolEngine
    ELSE IF use_enhanced THEN LoopEngine ELSE LegacyEngine

\* home_record of a scoreboard game: the summary text of the feed, or a
\* JSON number where the feed sent one
NumberRecord(n) == [number |-> n]
SlateRecords == {Record("45-12", <<45, 12>>), NumberRecord(45)}

SlateGame(game_id, home_record) ==
    [game_id |-> game_id, home_record |-> home_record]

\* get_scoreboard(): no game, or games with ids 1..n
Slates ==
    UNION {{[i \in 1..n |-> SlateGame(i, records[i])] :
               records \in [1..n -> SlateRecords]} : n \in 0..MaxSlate}

\* PredictionEngine.calculate_record_win_prob (prediction.py:26-37):
\* "'-' not in record" raises TypeError for a record that is a number
LegacyRaises(game) == "number" \in DOMAIN game.home_record

\* Whether the engine's generate_prediction raises for the game
EvaluationRaises(engine, game) ==
    IF engine = LegacyEngine THEN LegacyRaises(game) ELSE RaisedAt # "none"

\* What a task of the batch holds
Pending == <<"pending">>
ReturnedNone == <<"None">>
RaisedException == <<"exception">>
Prediction(game) == <<"prediction", game.game_id>>

\* _process_single_game without its handler: the exception leaves the task
Unhandled(raised, prediction_data) ==
    IF raised THEN RaisedException ELSE prediction_data

\* try: ... return prediction_data / except Exception: log, return None
Handled(raised, prediction_data) ==
    IF raised THEN ReturnedNone ELSE prediction_data

\* _process_single_game(game, ...) of either router
_process_single_game(route, use_enhanced, game) ==
    Handled(EvaluationRaises(EngineOf(route, use_enhanced), game),
            Prediction(game))

\* [r for r in processed_results if r is not None and not an Exception]
RECURSIVE Kept(_)
Kept(processed) ==
    IF processed = <<>> THEN <<>>
    ELSE IF Head(processed) \in {ReturnedNone, RaisedException}
         THEN Kept(Tail(processed))
         ELSE <<Head(processed)>> \o Kept(Tail(processed))

\* asyncio.gather: with return_exceptions=True (endpoints.py:286) exceptions
\* are results; without it (enhanced_endpoints.py:141) the first one is raised
GatherRaises(route, processed) ==
    /\ route = PoolRoute
    /\ \E i \in 1..Len(processed) : processed[i] = RaisedException

\* predictions_cache, keyed by f"{league}_{use_enhanced}"; an absent entry
\* and an empty list read alike at "if cached:"
CacheKeys == Leagues \X BOOLEAN

InitBatch ==
    batch = [pc |-> "idle", route |-> LoopRoute, league |-> "nba",
             use_enhanced |-> TRUE, games |-> <<>>, processed |-> <<>>,
             results |-> <<>>, evaluated |-> FALSE, started |-> 0,
             recorded |-> {}, cache |-> [k \in CacheKeys |-> <<>>]]

\* _get_league_predictions(league, use_enhanced) up to the gather, and
\* _get_league_predictions_enhanced(league), which has no cache and always
\* uses the enhanced engine. fresh: the cached entry is younger than the ttl.
\* One batch runs at a time, so _pending_requests never holds the key.
StartsBatch(route, league, use_enhanced, games, fresh) ==
    LET key == <<league, use_enhanced>>
        cached == IF route = LoopRoute /\ fresh THEN batch.cache[key] ELSE <<>>
        cache == IF route = LoopRoute /\ ~fresh
                 THEN [batch.cache EXCEPT ![key] = <<>>] ELSE batch.cache
    IN  /\ batch.pc # "running"
        /\ batch.started < MaxBatches
        /\ route = PoolRoute => use_enhanced /\ ~fresh
        /\ batch' =
             IF cached # <<>>
             THEN [batch EXCEPT !.pc = "done", !.route = route,
                     !.league = league, !.use_enhanced = use_enhanced,
                     !.games = <<>>, !.processed = <<>>, !.results = cached,
                     !.evaluated = FALSE, !.started = @ + 1]
             ELSE IF games = <<>>
             THEN [batch EXCEPT !.pc = "done", !.route = route,
                     !.league = league, !.use_enhanced = use_enhanced,
                     !.games = <<>>, !.processed = <<>>, !.results = <<>>,
                     !.evaluated = TRUE, !.started = @ + 1, !.cache = cache]
             ELSE [batch EXCEPT !.pc = "running", !.route = route,
                     !.league = league, !.use_enhanced = use_enhanced,
                     !.games = games,
                     !.processed = [i \in 1..Len(games) |-> Pending],
                     !.results = <<>>, !.evaluated = TRUE,
                     !.started = @ + 1, !.cache = cache]

\* One task of the batch runs _process_single_game; the pool's version
\* records the prediction it got (enhanced_endpoints.py:52-56)
ProcessesGame(i) ==
    LET out == _process_single_game(batch.route, batch.use_enhanced,
                                    batch.games[i])
    IN  /\ batch.pc = "running"
        /\ batch.processed[i] = Pending
        /\ batch' = [batch EXCEPT !.processed[i] = out,
                        !.recorded =
                            IF batch.route = PoolRoute
                               /\ out \notin {ReturnedNone, RaisedException}
                            THEN @ \cup {batch.games[i].game_id} ELSE @]

\* The gather returns: the results are filtered, cached (endpoints.py:296)
\* and returned
Gathers ==
    /\ batch.pc = "running"
    /\ \A i \in 1..Len(batch.processed) : batch.processed[i] # Pending
    /\ batch' =
         IF GatherRaises(batch.route, batch.processed)
         THEN [batch EXCEPT !.pc = "aborted"]
         ELSE [batch EXCEPT !.pc = "done",
                 !.results = Kept(batch.processed),
                 !.cache = IF batch.route = LoopRoute
                           THEN [@ EXCEPT ![<<batch.league, batch.use_enhanced>>]
                                     = Kept(batch.processed)]
                           ELSE @]

BatchBegins ==
    \E route \in Routes, league \in Leagues, use_enhanced \in BOOLEAN,
       games \in Slates, fresh \in BOOLEAN :
        StartsBatch(route, league, use_enhanced, games, fresh)

TaskRuns == \E i \in 1..Len(batch.games) : ProcessesGame(i)

NextBatch ==
    /\ BatchBegins \/ TaskRuns \/ Gathers
    /\ UNCHANGED <<eloAll, calAll, monAll, engAll, matcher, trkAll, dedup>>

-----------------------------------------------------------------------------
(* AccuracyTracker *)

MaxRecords == 2

\* What record_prediction reads of the dictionary generate_prediction
\* builds for its return (the path "prediction"."kalshi_prob" is not in it)
PredictionData(home_elo, away_elo, league, all_games, final_prob, stat_model_prob) ==
    LET home_form == calculate_recent_form("A", all_games)
        away_form == calculate_recent_form("B", all_games)
    IN  [prediction |->
             [home_win_prob |-> final_prob,
              stat_model_prob |-> stat_model_prob,
              elo_prob |-> NanTo(calculate_elo_win_prob(home_elo, away_elo,
                                                        league), Half),
              form_prob |-> NanTo(FormProb(home_form, away_form), Half)],
         analytics |->
             [elo_ratings |-> [home |-> home_elo],
              recent_form |-> [home |-> home_form]]]

PredictionResults ==
    {PredictionData(home_elo, DEFAULT_RATING, "nba", all_games, 60000, 58000) :
         home_elo \in {15160},
         all_games \in {<<>>, SeasonFeed("nba")}}

\* A rating in tenths as a number in units of 1 / PScale
RatingAsNumber(rating) == rating * (PScale \div 10)

\* The "prediction" entry of the record that record_prediction builds
RecordedPrediction(prediction) ==
    [home_win_prob |-> prediction.prediction.home_win_prob,
     stat_model_prob |-> prediction.prediction.stat_model_prob,
     kalshi_prob |-> NoneValue,
     elo_prob |-> RatingAsNumber(prediction.analytics.elo_ratings.home),
     form_prob |-> prediction.analytics.recent_form.home.win_pct]

\* The same entry taken from the component probabilities
RecordedComponents(prediction) ==
    [home_win_prob |-> prediction.prediction.home_win_prob,
     stat_model_prob |-> prediction.prediction.stat_model_prob,
     kalshi_prob |-> NoneValue,
     elo_prob |-> prediction.prediction.elo_prob,
     form_prob |-> prediction.prediction.form_prob]

\* record_prediction(prediction, game_id, league); "given" keeps the
\* dictionary the record was built from
record_prediction(prediction, game_id, league) ==
    /\ predictions_history' =
           Append(predictions_history,
                  [game_id |-> game_id, league |-> league,
                   prediction |-> RecordedPrediction(prediction),
                   outcome |-> NoneValue, verified |-> FALSE,
                   given |-> prediction.prediction])
    /\ history_file' = predictions_history'
    /\ UNCHANGED outcome_call

\* The callers of record_outcome on one tracker: process_game_result on
\* the monitor's thread and under manual_check
Callers == {"monitor", "manual"}

IdleCall == [pc |-> "idle", outcome |-> NoneValue, at |-> 0,
             verified_then |-> FALSE]

Outcomes == {[home_won |-> TRUE, home_score |-> 110, away_score |-> 100],
             [home_won |-> FALSE, home_score |-> 90, away_score |-> 100]}

\* "if record['game_id'] == game_id" alone
AnyRecordOf(record, game_id) == record.game_id = game_id

\* "if record['game_id'] == game_id and not record.get('verified', False)"
Unverified(record, game_id) == record.game_id = game_id /\ ~record.verified

\* The position at which the loop of record_outcome stops, 0 for none
FirstUnverified(history, game_id) ==
    LET at == {i \in 1..Len(history) : Unverified(history[i], game_id)}
    IN  IF at = {} THEN 0 ELSE CHOOSE i \in at : \A j \in at : i <= j

\* record_outcome(game_id, home_won, home_score, away_score) by caller c,
\* until the loop has found its record or has ended without one;
\* verified_then keeps the flag the record had when the loop stopped at it
outcome_loop(c, game_id, outcome) ==
    /\ outcome_call[c].pc = "idle"
    /\ LET at == FirstUnverified(predictions_history, game_id)
       IN  outcome_call' =
               [outcome_call EXCEPT
                    ![c] = IF at = 0 THEN IdleCall
                           ELSE [pc |-> "found", outcome |-> outcome,
                                 at |-> at,
                                 verified_then |->
                                     predictions_history[at].verified]]
    /\ UNCHANGED <<predictions_history, history_file>>

\* The body of the "if" in record_outcome: the outcome, the flag,
\* save_history() and the break
outcome_write(c) ==
    /\ outcome_call[c].pc = "found"
    /\ predictions_history' =
           [predictions_history EXCEPT
                ![outcome_call[c].at].outcome = outcome_call[c].outcome,
                ![outcome_call[c].at].verified = TRUE]
    /\ history_file' = predictions_history'
    /\ outcome_call' = [outcome_call EXCEPT ![c] = IdleCall]

InitTracker ==
    /\ predictions_history = <<>>
    /\ history_file = <<>>
    /\ outcome_call = [c \in Callers |-> IdleCall]

RecordsPrediction ==
    /\ Len(predictions_history) < MaxRecords
    /\ \E prediction \in PredictionResults, game_id \in {"m1", "m2"} :
           record_prediction(prediction, game_id, "nba")

OutcomeLoop ==
    \E c \in Callers, game_id \in {"m1", "m2"}, outcome \in Outcomes :
        outcome_loop(c, game_id, outcome)

OutcomeWrite == \E c \in Callers : outcome_write(c)

NextTracker ==
    /\ RecordsPrediction \/ OutcomeLoop \/ OutcomeWrite
    /\ UNCHANGED <<eloAll, calAll, monAll, engAll, apiAll, dedup>>

-----------------------------------------------------------------------------
(* The requests for a league's predictions: cache and de-duplication *)

MaxRequests == 3

\* The requests the event loop handles, each one a task
HttpRequests == 1..MaxRequests

\* A future: not made, pending, or done with a result or by cancellation
NoFuture == [state |-> "none", result |-> <<>>]
PendingFuture == [state |-> "pending", result |-> <<>>]

\* What a batch ends with: no prediction or some
BatchResults == {<<>>, <<"prediction">>}

NewRequest == [pc |-> "new", league |-> "nba", awaits |-> 0, results |-> <<>>]

\* The awaits of the computation, in the order of the source
Computing == {"get_scoreboard", "get_league_markets", "gather"}

InitDedup ==
    dedup = [predictions_cache |-> [l \in Leagues |-> <<>>],
             pending_requests |-> [l \in Leagues |-> 0],
             futures |-> [q \in HttpRequests |-> NoFuture],
             requests |-> [q \in HttpRequests |-> NewRequest]]

\* Lines 219-234: the cache is read, then _pending_requests; the request
\* returns, waits for the future that is there, or registers its own.
\* The routes call with use_enhanced=True, so the key is the league;
\* fresh: the cached entry is younger than the ttl.
request_arrives(q, league, fresh) ==
    LET cached == IF fresh THEN dedup.predictions_cache[league] ELSE <<>>
        cache == IF fresh THEN dedup.predictions_cache
                 ELSE [dedup.predictions_cache EXCEPT ![league] = <<>>]
        owner == dedup.pending_requests[league]
    IN  /\ dedup.requests[q].pc = "new"
        /\ dedup' =
             IF cached # <<>>
             THEN [dedup EXCEPT !.requests[q] =
                      [pc |-> "returned", league |-> league, awaits |-> 0,
                       results |-> cached]]
             ELSE IF owner # 0
             THEN [dedup EXCEPT !.predictions_cache = cache,
                      !.requests[q] =
                          [pc |-> "waiting", league |-> league,
                           awaits |-> owner, results |-> <<>>]]
             ELSE [dedup EXCEPT !.predictions_cache = cache,
                      !.pending_requests[league] = q,
                      !.futures[q] = PendingFuture,
                      !.requests[q] =
                          [pc |-> "get_scoreboard", league |-> league,
                           awaits |-> 0, results |-> <<>>]]

\* The test "if cache_key in _pending_requests" before the pop
PoppedIfPresent(pending, league) == [pending EXCEPT ![league] = 0]

\* Lines 295-304: the cache is set, the pending entry popped, the future
\* resolved unless it is done, and the results returned
Resolved(q, results) ==
    LET league == dedup.requests[q].league
        owner == dedup.pending_requests[league]
    IN  [dedup EXCEPT
            !.predictions_cache[league] = results,
            !.pending_requests = PoppedIfPresent(@, league),
            !.futures = IF owner # 0 /\ @[owner].state = "pending"
                        THEN [@ EXCEPT ![owner] =
                                 [state |-> "result", result |-> results]]
                        ELSE @,
            !.requests[q].pc = "returned",
            !.requests[q].results = results]

\* Lines 236-250: the scoreboard is fetched in the executor; an exception
\* or an empty list leaves results = [] and the function goes on to
\* line 295
scoreboard_fetched(q, has_games) ==
    /\ dedup.requests[q].pc = "get_scoreboard"
    /\ dedup' = IF has_games
                THEN [dedup EXCEPT !.requests[q].pc = "get_league_markets"]
                ELSE Resolved(q, <<>>)

\* Lines 252-275: the markets are fetched; an exception leaves markets = []
markets_fetched(q) ==
    /\ dedup.requests[q].pc = "get_league_markets"
    /\ dedup' = [dedup EXCEPT !.requests[q].pc = "gather"]

\* Lines 277-304: the gather returns, its results are filtered, cached
\* and returned
tasks_gathered(q, results) ==
    /\ dedup.requests[q].pc = "gather"
    /\ dedup' = Resolved(q, results)

\* The task of a computing request is cancelled while it awaits the
\* executor or the gather: CancelledError is not an Exception, no handler
\* of the function catches it, and the function has no finally
computation_cancelled(q) ==
    /\ dedup.requests[q].pc \in Computing
    /\ dedup' = [dedup EXCEPT !.requests[q].pc = "cancelled"]

\* The task of a waiting request is cancelled: Task.cancel() cancels the
\* future the task awaits
waiter_cancelled(q) ==
    /\ dedup.requests[q].pc = "waiting"
    /\ dedup' =
         [dedup EXCEPT
             !.futures[dedup.requests[q].awaits] =
                 IF @.state = "pending"
                 THEN [state |-> "cancelled", result |-> <<>>] ELSE @,
             !.requests[q].pc = "cancelled"]

\* "return await _pending_requests[cache_key]" resumes when the future is
\* done: with its result, or with CancelledError
waiter_resumes(q) ==
    LET future == dedup.futures[dedup.requests[q].awaits]
    IN  /\ dedup.requests[q].pc = "waiting"
        /\ future.state \in {"result", "cancelled"}
        /\ dedup' = [dedup EXCEPT
                        !.requests[q].pc =
                            IF future.state = "result" THEN "returned"
                            ELSE "cancelled",
                        !.requests[q].results = future.result]

RequestArrives ==
    \E q \in HttpRequests, league \in Leagues, fresh \in BOOLEAN :
        request_arrives(q, league, fresh)

ScoreboardFetched ==
    \E q \in HttpRequests, has_games \in BOOLEAN : scoreboard_fetched(q, has_games)

MarketsFetched == \E q \in HttpRequests : markets_fetched(q)

TasksGathered ==
    \E q \in HttpRequests, results \in BatchResults : tasks_gathered(q, results)

ComputationCancelled == \E q \in HttpRequests : computation_cancelled(q)

WaiterCancelled == \E q \in HttpRequests : waiter_cancelled(q)

WaiterResumes == \E q \in HttpRequests : waiter_resumes(q)

NextDedup ==
    /\ \/ RequestArrives
       \/ ScoreboardFetched
       \/ MarketsFetched
       \/ TasksGathered
       \/ ComputationCancelled
       \/ WaiterCancelled
       \/ WaiterResumes
    /\ UNCHANGED <<eloAll, calAll, monAll, engAll, apiAll, trkAll>>

-----------------------------------------------------------------------------
(* Claims about the prediction engine *)

\* C1: generate_prediction never aborts a single game's evaluation: whatever
\* is missing or malformed in the game's inputs, the call returns a result
\* instead of raising.
C1_NeverRaises == pred.called => pred.returned

InRange(x, lo, hi) == ~IsNaN(x) /\ lo <= x /\ x <= hi

\* C2: every component probability and the final blended probability an
\* evaluation computes lies in [0,1], within the narrower bounds: form in
\* [0.12,0.88], record in [0.15,0.85], injury in [0.20,0.80], statistical
\* ensemble in [0.05,0.95], stat model in [0.10,0.90], final in [0.05,0.95].
C2_ComponentBounds ==
    pred.called =>
        /\ InRange(pred.elo_prob, 0, PScale)
        /\ InRange(pred.context_prob, 0, PScale)
        /\ InRange(pred.form_prob, 12000, 88000)
        /\ InRange(pred.record_prob, 15000, 85000)
        /\ InRange(pred.injury_prob, 20000, 80000)
        /\ InRange(pred.stat_ensemble_prob, 5000, 95000)
        /\ InRange(pred.stat_model_prob, 10000, 90000)
        /\ InRange(pred.final_prob, 5000, 95000)

\* An evaluation whose unclamped form probability exceeds 0.88
C2_Witness ==
    /\ pred.called
    /\ pred.form_raw > 88000
    /\ pred.form_prob = 88000

\* C16: for each market tier the vector {stats, kalshi, elo, form, ensemble}
\* of the final blend, as used and as reported in analytics.model_weights,
\* sums to exactly 1.00.
C16_BlendWeightsSumToOne ==
    /\ \A tier \in {"HIGH", "MEDIUM", "LOW"} :
         LET w == BlendWeights(tier)
         IN  w.stats + w.kalshi + w.elo + w.form + w.ensemble = 100
    /\ pred.called =>
         /\ pred.model_weights = BlendWeights(pred.kalshi_confidence)
         /\ pred.model_weights.stats + pred.model_weights.kalshi
              + pred.model_weights.elo + pred.model_weights.form
              + pred.model_weights.ensemble = 100

\* C16 witness: an evaluation on a MEDIUM market, blended with the base
\* weights of the engine
C16_Witness ==
    /\ pred.called
    /\ pred.kalshi_confidence = "MEDIUM"
    /\ pred.model_weights.kalshi = WEIGHT_KALSHI

\* C18: every evaluation returns a result whose signal_strength and
\* recommendation follow the divergence of the statistical model from the
\* market: STRONG with Follow/Fade Market above 0.15, MODERATE with Lean
\* Market/Model above 0.08, WEAK with Neutral otherwise.
C18_SignalFollowsDivergence ==
    pred.called =>
        /\ pred.returned
        /\ pred.divergence
               = Abs(pred.stat_model_prob - pred.home_kalshi_prob)
        /\ pred.divergence > 15000 =>
               /\ pred.signal_strength = "STRONG"
               /\ pred.recommendation
                      \in {<<"Follow Market">>, <<"Fade Market">>}
        /\ pred.divergence > 8000 /\ pred.divergence <= 15000 =>
               /\ pred.signal_strength = "MODERATE"
               /\ pred.recommendation
                      \in {<<"Lean Market">>, <<"Lean Model">>}
        /\ pred.divergence <= 8000 =>
               /\ pred.signal_strength = "WEAK"
               /\ pred.recommendation = <<"Neutral">>

\* C19: every evaluation returns a wager: no bet (amount 0, "No Bet") exactly
\* when the edge is at most 0.05; otherwise a range within $25-125 when the
\* signal is STRONG, within $15-65 when MODERATE, $10-20 otherwise; the Kelly
\* fraction is never negative.
C19_WagerSizing ==
    pred.called =>
        /\ pred.returned
        /\ pred.wager.bound
        /\ pred.wager.kelly_f >= 0
        /\ pred.wager.edge <= 5000
               <=> (pred.wager.wager_amount = 0
                       /\ pred.wager.wager_display = NoBet)
        /\ pred.wager.edge > 5000 =>
               LET d == pred.wager.wager_display
               IN  /\ Len(d) = 2
                   /\ pred.signal_strength = "STRONG"
                          => 25 <= d[1] /\ d[2] <= 125
                   /\ pred.signal_strength = "MODERATE"
                          => 15 <= d[1] /\ d[2] <= 65
                   /\ pred.signal_strength = "WEAK" => d = <<10, 20>>

\* C23: a rating change that update_with_game_result has applied is seen
\* by the prediction engine: an evaluation reads, for the two teams of its
\* game, the ratings the monitor's EloManager holds at that moment.
C23_EngineSeesUpdatedRatings ==
    [][(~pred.called /\ pred'.called) =>
           /\ pred'.home_elo = get_rating(ratings, pred'.ids[1], pred'.league)
           /\ pred'.away_elo = get_rating(ratings, pred'.ids[2], pred'.league)]_vars

\* C25: the market tier is HIGH iff the volume is above 500 and the spread
\* at most 5, MEDIUM iff it is not HIGH and the volume is above 100 and the
\* spread at most 15, LOW otherwise, a Dual match counting the sum of the
\* two volumes and the mean of the two spreads; without a match the market
\* probability is 0.5, the tier is LOW, and the weights are those of LOW.
C25_MarketTier ==
    pred.called =>
        LET markets == pred.kalshi_markets
            home == markets.home_market
            away == markets.away_market
            matched == markets.type \in {"dual", "single_home", "single_away"}
            volume == IF markets.type = "dual" THEN home.volume + away.volume
                      ELSE IF markets.type = "single_home" THEN home.volume
                      ELSE away.volume
            \* twice the spread, in cents
            spread == IF markets.type = "dual"
                      THEN (home.yes_ask - home.yes_bid)
                               + (away.yes_ask - away.yes_bid)
                      ELSE IF markets.type = "single_home"
                      THEN 2 * (home.yes_ask - home.yes_bid)
                      ELSE 2 * (away.yes_ask - away.yes_bid)
            high == matched /\ volume > 500 /\ spread <= 2 * 5
            medium == matched /\ ~high /\ volume > 100 /\ spread <= 2 * 15
        IN  /\ pred.kalshi_confidence = "HIGH" <=> high
            /\ pred.kalshi_confidence = "MEDIUM" <=> medium
            /\ pred.kalshi_confidence = "LOW" <=> ~high /\ ~medium
            /\ ~matched =>
                   /\ pred.home_kalshi_prob = Half
                   /\ pred.kalshi_confidence = "LOW"
            /\ pred.kalshi_confidence = "LOW" =>
                   pred.model_weights = [stats |-> 35, kalshi |-> 15,
                                         elo |-> 25, form |-> 20,
                                         ensemble |-> 5]

\* A Dual match of volume 501 whose spreads are 5 and 6: not HIGH
C25_Witness ==
    /\ pred.called
    /\ pred.kalshi_markets.type = "dual"
    /\ pred.kalshi_markets.home_market.volume
           + pred.kalshi_markets.away_market.volume > 500
    /\ pred.kalshi_markets.home_market.yes_ask
           - pred.kalshi_markets.home_market.yes_bid = 5
    /\ pred.kalshi_confidence = "MEDIUM"

-----------------------------------------------------------------------------
(* Claims about the market matcher *)

HomeKeys == _build_team_keys(matcher.game.home_team_name,
                             matcher.game.home_team_abbrev)
AwayKeys == _build_team_keys(matcher.game.away_team_name,
                             matcher.game.away_team_abbrev)

\* The subject of a normalized market names one side (keys) and not the
\* other (others)
SubjectOnly(keys, others, norm) ==
    AnyIn(keys, Lower(norm.subject)) /\ ~AnyIn(others, Lower(norm.subject))

\* The fetched markets, normalized, and those whose subject names one side only
Normalized == [i \in 1..Len(matcher.markets) |->
                  normalize_market(matcher.markets[i])]
OnlyAt(keys, others, norms) ==
    {i \in DOMAIN norms : SubjectOnly(keys, others, norms[i])}
Last(S) == CHOOSE i \in S : \A j \in S : j <= i

\* Both sides have a market of their own, and the two tracked ones differ
DualCase(norms, home_at, away_at) ==
    /\ home_at # {}
    /\ away_at # {}
    /\ norms[Last(home_at)].market_id # norms[Last(away_at)].market_id

\* C13: the result is Dual exactly when some market's subject matches the
\* home tokens only, some market's subject matches the away tokens only, and
\* the two tracked markets (the last of each kind) have distinct ids; in a
\* Dual result the home market names the home side only and the away market
\* the away side only. (Stated of the call that has just returned: every
\* result is the latest one in the state its call leads to.)
C13_DualExactlyWhenBothSides ==
    matcher.results # <<>> =>
        LET result == matcher.results[Len(matcher.results)]
            home_keys == HomeKeys
            away_keys == AwayKeys
            norms == Normalized
            home_at == OnlyAt(home_keys, away_keys, norms)
            away_at == OnlyAt(away_keys, home_keys, norms)
        IN  /\ result.type = "dual" <=> DualCase(norms, home_at, away_at)
            /\ result.type = "dual"
                => /\ SubjectOnly(home_keys, away_keys, result.home_market)
                   /\ SubjectOnly(away_keys, home_keys, result.away_market)

\* C13 witness: Boston at home against the Lakers, markets with the
\* subtitles "Boston Celtics" and "Los Angeles Lakers": Dual, each market on
\* its own side
C13_Witness ==
    /\ matcher.game.home_team_name = BostonCeltics
    /\ Len(matcher.markets) = 2
    /\ matcher.markets[1].subtitle = LosAngelesLakers
    /\ matcher.markets[2].subtitle = BostonCeltics
    /\ matcher.results # <<>>
    /\ matcher.results[1].type = "dual"
    /\ matcher.results[1].home_market.subtitle = BostonCeltics
    /\ matcher.results[1].away_market.subtitle = LosAngelesLakers

\* The score of each market: 1 for a home token in title and ticker, plus 1
\* for an away token
Scores(home_keys, away_keys) ==
    [i \in 1..Len(matcher.markets) |->
        (IF AnyIn(home_keys, _market_text(matcher.markets[i])) THEN 1 ELSE 0)
        + (IF AnyIn(away_keys, _market_text(matcher.markets[i])) THEN 1 ELSE 0)]

\* The first market with the highest score
BestAt(scores) ==
    CHOOSE i \in DOMAIN scores :
        /\ \A j \in DOMAIN scores : scores[j] <= scores[i]
        /\ \A j \in 1..(i - 1) : scores[j] < scores[i]

\* C14: when the result is not Dual and the highest-scoring market scores
\* at least 1.5, the result is SingleAway with that market if its subject
\* matches the away side only, and SingleHome with that market otherwise
\* (home only, both, or neither); in every other case it is None.
C14_SingleFallback ==
    matcher.results # <<>> =>
        LET result == matcher.results[Len(matcher.results)]
            home_keys == HomeKeys
            away_keys == AwayKeys
            norms == Normalized
            home_at == OnlyAt(home_keys, away_keys, norms)
            away_at == OnlyAt(away_keys, home_keys, norms)
            scores == Scores(home_keys, away_keys)
            best == BestAt(scores)
        IN  ~DualCase(norms, home_at, away_at) =>
              IF matcher.markets # <<>> /\ 2 * scores[best] >= 3
              THEN IF SubjectOnly(away_keys, home_keys, norms[best])
                   THEN result = [type |-> "single_away",
                                  away_market |-> norms[best]]
                   ELSE result = [type |-> "single_home",
                                  home_market |-> norms[best]]
              ELSE result = NoneValue

\* C14 witness: the single market "BOS vs LAL" without a subtitle gives
\* SingleHome
C14_Witness ==
    /\ matcher.game.home_team_abbrev = BOS
    /\ Len(matcher.markets) = 1
    /\ matcher.markets[1].title = BosVsLal
    /\ matcher.markets[1].subtitle = <<>>
    /\ matcher.results # <<>>
    /\ matcher.results[1].type = "single_home"

\* A step in which match_game_to_markets has been called and has returned
Matched == matcher'.results = Append(matcher.results,
                                     matcher'.results[Len(matcher'.results)])

First(S) == CHOOSE i \in S : \A j \in S : i <= j

\* C21: when the loop over the markets has ended, home_market_match is the
\* first market of the list whose subject names the home side only, and
\* away_market_match the first whose subject names the away side only; a
\* later market of the same kind does not replace it.
C21_FirstMatchKept ==
    matcher.results # <<>> =>
        LET home_keys == HomeKeys
            away_keys == AwayKeys
            norms == Normalized
            home_at == OnlyAt(home_keys, away_keys, norms)
            away_at == OnlyAt(away_keys, home_keys, norms)
        IN  /\ matcher.tracked.home_market_match
                  = IF home_at = {} THEN NoneValue ELSE norms[First(home_at)]
            /\ matcher.tracked.away_market_match
                  = IF away_at = {} THEN NoneValue ELSE norms[First(away_at)]

\* The normalized markets the loop of the latest call has kept
KeptNormalized ==
    {matcher.tracked.home_market_match, matcher.tracked.away_market_match,
     matcher.tracked.best_single_market} \ {NoneValue}

\* C26: a normalized market has for subject the subtitle of its quote if
\* there is one and the title otherwise; for probability last_price / 100 if
\* the quote has a last price, else (yes_bid + yes_ask) / 200 if it has a bid
\* and an ask, else 0.5 (a price that is missing or 0 counts as not there);
\* the probability is in [0, 1], and the quote is one of the fetched
\* markets, as it was fetched.
C26_NormalizedQuote ==
    \A n \in KeptNormalized :
        /\ n.subject = IF n.raw.subtitle # <<>> THEN n.raw.subtitle
                       ELSE n.raw.title
        /\ n.raw.last_price # 0 => n.prob * 100 = n.raw.last_price * PScale
        /\ (n.raw.last_price = 0 /\ n.raw.yes_bid # 0 /\ n.raw.yes_ask # 0)
               => n.prob * 200 = (n.raw.yes_bid + n.raw.yes_ask) * PScale
        /\ (n.raw.last_price = 0 /\ (n.raw.yes_bid = 0 \/ n.raw.yes_ask = 0))
               => n.prob * 2 = PScale
        /\ n.prob \in 0..PScale
        /\ \E i \in 1..Len(matcher.markets) : matcher.markets[i] = n.raw
        /\ n.raw \in MarketPool

\* A call kept a market priced by its last trade and one priced by the
\* middle of its bid and ask
C26_Witness ==
    /\ matcher.results # <<>>
    /\ \E n \in KeptNormalized :
           n.raw.last_price # 0 /\ n.raw.yes_bid # 0
               /\ n.raw.last_price * 2 # n.raw.yes_bid + n.raw.yes_ask
    /\ \E n \in KeptNormalized : n.raw.last_price = 0 /\ n.raw.yes_bid # 0

-----------------------------------------------------------------------------
(* Claims about a batch of games *)

\* C20: an exception raised while one game of a batch is evaluated never
\* aborts or blocks the evaluation of the others: the batch is never aborted,
\* every task still pending can run, a batch whose tasks have all run can be
\* gathered, and when it completes every game whose own evaluation succeeded
\* is in the results.
C20_OneFailureNeverAbortsBatch ==
    /\ batch.pc # "aborted"
    /\ batch.pc = "running" =>
          /\ \A i \in 1..Len(batch.games) :
                batch.processed[i] = Pending => ENABLED ProcessesGame(i)
          /\ (\A i \in 1..Len(batch.games) : batch.processed[i] # Pending)
                => ENABLED Gathers
    /\ batch.pc = "done" /\ batch.evaluated =>
          \A i \in 1..Len(batch.games) :
             /\ batch.processed[i] # Pending
             /\ ~EvaluationRaises(EngineOf(batch.route, batch.use_enhanced),
                                  batch.games[i])
                   => \E j \in 1..Len(batch.results) :
                         batch.results[j] = Prediction(batch.games[i])

\* a completed batch in which one game raised and another is in the results
C20_Witness ==
    /\ batch.pc = "done"
    /\ batch.evaluated
    /\ \E i, k \in 1..Len(batch.games) :
          /\ EvaluationRaises(EngineOf(batch.route, batch.use_enhanced),
                              batch.games[i])
          /\ batch.processed[i] = ReturnedNone
          /\ \E j \in 1..Len(batch.results) :
                batch.results[j] = Prediction(batch.games[k])

-----------------------------------------------------------------------------
(* Claims about the rating store *)

UpdateApplied(o) ==
    o.name = "update_with_game_result" /\ IsFinalStatus(o.game.status)

HomeBefore(o) == get_rating(ratings, o.game.home_team_id, o.league)
AwayBefore(o) == get_rating(ratings, o.game.away_team_id, o.league)
HomeAfter(o) == get_rating(ratings', o.game.home_team_id, o.league)
AwayAfter(o) == get_rating(ratings', o.game.away_team_id, o.league)

C10_SeedWithoutForceIsNoOp ==
    [][(op'.name = "initialize_ratings" /\ ~op'.force /\ op'.rated)
        => UNCHANGED eloVars]_vars

\* C10 witness: a seed without force was called on a league that had ratings
\* and a history it could have replayed.
C10_Witness ==
    /\ op.name = "initialize_ratings" /\ ~op.force /\ op.rated
    /\ AppliedThisRun > 0
    /\ historical_games # <<>>

\* C11: every result applied, alone or replayed while seeding, leaves both
\* new ratings in the persisted table (which then equals the table in
\* memory) and has raised games_processed by exactly one.
C11_WriteThroughPerResult ==
    \A i \in 1..Len(op.applied) :
        /\ op.applied[i].written_through
        /\ op.applied[i].count = op.count_before + i

\* C27: a forced seed is a function of the league's history only: after
\* initialize_ratings(league, force_refresh=True) has replayed the fetched
\* games, the league's ratings are those of the replay from the 1500
\* default, whatever was stored before.
C27_ForcedSeedFromDefaults ==
    (op.name = "initialize_ratings" /\ op.force /\ op.applied # <<>>) =>
        LET InLeague(g) == g.league = op.league
            fetched == SortByDate(SelectSeq(historical_games, InLeague))
            tables == ReplayTables(<<>>, fetched, op.league)
            fresh == tables[Len(tables)]
        IN  \A k \in LeagueTeams(ratings, op.league) :
                ratings[k] = get_rating(fresh, k[2], op.league)

-----------------------------------------------------------------------------
(* Claims about the calibrator and the engines that read its weights *)

\* The step in which request r's calibrate_weights persists and assigns
Persists(r) == req[r].pc = "save" /\ req'[r].pc = "reload"

\* C3: after a successful calibrate_weights(max_adjustment = m) each of the
\* five weights in force differs from its value in force before the run by
\* at most m.
C3_DeltaWithinMaxAdjustment ==
    [][\A r \in Requests : Persists(r) =>
          \A k \in KeySet :
              Abs(current_weights'[k] - current_weights[k])
                  <= req[r].max_adjustment]_vars

\* C4: with fewer than min_predictions verified records the call returns
\* success = false with a reason, and neither the weights in memory, nor the
\* persisted weights, nor the calibration history change, from the entry of
\* the call to its return.
C4_TooFewRecordsChangesNothing ==
    [][\A r \in Requests :
          /\ (req[r].pc = "pending" /\ req'[r].pc = "optimize")
                => UNCHANGED <<current_weights, weights_file>>
          /\ (req[r].pc = "optimize" /\ req'[r] # req[r]
                  /\ verified_count < req[r].min_predictions)
                => /\ req'[r].pc = "done"
                   /\ ~req'[r].result.success
                   /\ req'[r].result.message # ""
                   /\ UNCHANGED <<current_weights, weights_file>>]_vars

\* C4 witness: a request with min_predictions = 50 has returned a failure
\* while 49 verified records existed.
C4_Witness ==
    \E r \in Requests :
        /\ req[r].pc = "done"
        /\ ~req[r].result.success
        /\ req[r].min_predictions = DefaultMinPredictions
        /\ verified_count = DefaultMinPredictions - 1

\* C6: a prediction evaluated by a thread of the pool blends with five
\* weights that the engine has held together, all prior or all new.
C6_ConsistentSnapshot ==
    \A w \in Workers : worker[w].pc = "done" => worker[w].used \in snapshots

\* C7: no two calibration runs are in progress together, and the weights
\* in memory and the persisted record change only in the persist step of
\* the one run that is in progress.
C7_SingleWriter ==
    [][/\ Cardinality({r \in Requests :
              req'[r].pc \in {"optimize", "save", "reload"}}) <= 1
       /\ (weights_file' # weights_file \/ current_weights' # current_weights)
              => \E r \in Requests :
                    /\ Persists(r)
                    /\ \A q \in Requests \ {r} : ~InProgress(q)]_vars

\* C7 witness: a second request is in its persist step after a first one
\* has persisted and returned.
C7_Witness ==
    \E r, q \in Requests :
        /\ r # q
        /\ req[r].pc = "done" /\ req[r].result.persisted
        /\ req[q].pc = "save"

\* C8: a prediction served after a successful calibration has persisted new
\* weights and returned blends with the persisted weights.
C8_ServedWithPersistedWeights ==
    (served.made /\ served.calibrated) => served.used = served.persisted

\* C17: after every successful calibration the five weights held as
\* current_weights, and persisted when the write went through, are
\* non-negative and sum to 1.0.
C17_WeightsSumToOne ==
    [][\A r \in Requests : Persists(r) =>
          /\ \A k \in KeySet : current_weights'[k] >= 0
          /\ WeightSum(current_weights') = 1000
          /\ weights_file' # weights_file
                => /\ \A k \in KeySet : weights_file'.current_weights[k] >= 0
                   /\ WeightSum(weights_file'.current_weights) = 1000]_vars

\* C28: the report of a successful calibrate_weights has weights_before
\* equal to the weights in force before the run and weights_after equal to
\* the weights the run put in force, so the two differ whenever the run
\* changed a weight.
C28_ReportBeforeAndAfter ==
    [][\A r \in Requests :
           Persists(r) =>
               /\ req'[r].result.weights_before = current_weights
               /\ req'[r].result.weights_after = current_weights'
               /\ (current_weights' # current_weights
                      => req'[r].result.weights_before
                             # req'[r].result.weights_after)]_vars

-----------------------------------------------------------------------------
(* Claims about the result monitor *)

\* A thread is between its first read and its last write of _update_ratings
InFlight(t) == thr[t].pc \in {"read_away", "write_home", "write_away"}

\* The results applied so far, by both threads
Applied == thr["monitor"].applied \o thr["manual"].applied

ApplyResult(table, g) ==
    _update_ratings(table, g.home_team_id, g.away_team_id, g.league,
                    g.home_score > g.away_score, g.home_score, g.away_score)

\* The tables that applying the results games[i], i \in idx, one after the
\* other in any order makes of table
RECURSIVE SerialTables(_, _, _)
SerialTables(table, games, idx) ==
    IF idx = {} THEN {table}
    ELSE UNION {SerialTables(ApplyResult(table, games[i]), games, idx \ {i}) :
                    i \in idx}

\* C5: whenever no result application is in flight, the rating table is the
\* table some serial order of the applied results makes of the table the
\* store started with.
C5_SerialOrder ==
    (\A t \in Threads : ~InFlight(t))
        => \E f \in PersistedFiles :
              ratings \in SerialTables(f.ratings, Applied, DOMAIN Applied)

\* C24: the result of a game is applied to the ratings at most once, however
\* the passes of the monitor's thread and the manual checks interleave.
C24_AppliedAtMostOnce ==
    \A i, j \in DOMAIN Applied :
        Applied[i].game_id = Applied[j].game_id => i = j

-----------------------------------------------------------------------------
(* Claims about failing writes *)

\* C12: a failing write is not fatal.  When elo_ratings.json cannot be
\* written while a result is applied, the call still ends with both new
\* ratings and the raised count in memory; when model_weights.json cannot be
\* written by a calibration, the call still reports success and the
\* adjusted weights are the current weights.
C12_WriteFailureNotFatal ==
    [][/\ (games_processed' # games_processed /\ elo_file' = elo_file)
            => /\ UpdateApplied(op')
               /\ ratings' = _update_ratings(ratings, op'.game.home_team_id,
                                 op'.game.away_team_id, op'.league,
                                 op'.game.home_score > op'.game.away_score,
                                 op'.game.home_score, op'.game.away_score)
               /\ games_processed' = games_processed + 1
       /\ \A r \in Requests :
            (Persists(r) /\ weights_file' = weights_file)
                => /\ current_weights' = req[r].adjusted
                   /\ req'[r].result.success]_vars

\* C12 witness: a result has been applied and a calibration has succeeded,
\* both with a failed write: each file is behind the state in memory
C12_Witness ==
    /\ UpdateApplied(op)
    /\ elo_file.ratings # ratings
    /\ elo_file.games_processed # games_processed
    /\ \E r \in Requests :
          /\ req[r].result.success
          /\ weights_file.current_weights # current_weights
          /\ current_weights = req[r].result.weights_after

-----------------------------------------------------------------------------
(* Claims about the accuracy tracker *)

\* C22: what the tracker records under elo_prob and form_prob for a
\* prediction is the Elo and the recent-form probability of the prediction
\* it was given, each of them in [0, 1].
C22_RecordedComponents ==
    \A i \in 1..Len(predictions_history) :
        LET record == predictions_history[i]
        IN  /\ record.prediction.elo_prob = record.given.elo_prob
            /\ record.prediction.form_prob = record.given.form_prob
            /\ record.prediction.elo_prob \in 0..PScale
            /\ record.prediction.form_prob \in 0..PScale

\* The records that a step changes
ChangedRecords ==
    {i \in 1..Len(predictions_history) :
         predictions_history'[i] # predictions_history[i]}

-----------------------------------------------------------------------------
(* Claims about the de-duplication of requests *)

\* C30: however a computation ends, its entry of _pending_requests is
\* removed and its future resolved: a future that is pending, and an entry
\* of _pending_requests, belong to a request that is still computing, so
\* every request that waits is waiting for a computation in flight.
C30_PendingIsInFlight ==
    /\ \A league \in Leagues :
           dedup.pending_requests[league] # 0 =>
               dedup.requests[dedup.pending_requests[league]].pc \in Computing
    /\ \A q \in HttpRequests :
           dedup.futures[q].state = "pending" =>
               dedup.requests[q].pc \in Computing
    /\ \A q \in HttpRequests :
           (dedup.requests[q].pc = "waiting"
               /\ dedup.futures[dedup.requests[q].awaits].state = "pending")
               => dedup.requests[dedup.requests[q].awaits].pc \in Computing

\* At most one computation per key is in flight
C30_OneInFlight ==
    \A p, q \in HttpRequests :
        (/\ dedup.requests[p].pc \in Computing
         /\ dedup.requests[q].pc \in Computing
         /\ dedup.requests[p].league = dedup.requests[q].league) => p = q

-----------------------------------------------------------------------------
(* Specifications *)

\* The state after the services have been constructed
Init ==
    /\ InitElo /\ InitCal /\ InitMon /\ InitEng /\ InitApi /\ InitBatch
    /\ InitTracker
    /\ InitDedup

SpecElo == Init /\ [][NextElo]_vars

SpecCal == Init /\ [][NextCal]_vars

SpecPool == Init /\ [][NextPool]_vars

SpecMon == Init /\ [][NextMon]_vars

SpecEngine == Init /\ [][NextEngine]_vars

SpecPersist == Init /\ [][NextPersist]_vars

SpecMatch == Init /\ [][NextMatch]_vars

SpecBatch == Init /\ [][NextBatch]_vars

SpecLive == Init /\ [][NextLive]_vars

SpecTracker == Init /\ [][NextTracker]_vars

SpecDedup == Init /\ [][NextDedup]_vars

=============================================================================
